---- MODULE Spec2Model ----
(***************************************************************************)
(* Mantra AI: the scoring, alignment and recommendation core               *)
(* ("AI module": recommend.py, text_sentiment.py, emotion_detector.py,     *)
(* main.py) and the backend rule engine (backend/services/recommend.py).   *)
(*                                                                         *)
(* Numbers.  Confidences, stress scores and intensities are the fractions  *)
(* n/Scale, n \in 0..Scale.  Valences and polarities are the fractions     *)
(* n/(10*Scale).  MindScores are counted in tenths of a point (the value   *)
(* is rounded to one decimal), overall_mood in thousandths (rounded to     *)
(* three decimals).  A threshold such as confidence >= 0.8 is the integer  *)
(* comparison 10*n >= 8*Scale, exact for every Scale.                      *)
(*                                                                         *)
(* Text.  Every message is the source's text without its emoji.            *)
(***************************************************************************)
EXTENDS Integers, Sequences, FiniteSets, TLC

VARIABLES
    op,               \* the operation that ran last ("none" initially)
    args,             \* its inputs
    ret,              \* what it returned (or the HTTP error it raised)
    facial_detector,  \* main.py's global: NoDetector or the detector's fields
    recommendation_db, \* the contents of the backend's module-level RECOMMENDATION_DB
    tasks,            \* the concurrently running calls, by task
    earlier,          \* an earlier call, kept to compare a later one with
    _sentiment_analyzer \* text_sentiment.py's global: NoAnalyzer or the analyzer's fields

vars == <<op, args, ret, facial_detector, recommendation_db, tasks, earlier,
          _sentiment_analyzer>>

----------------------------------------------------------------------------
(* Bounds of the model *)

\* resolution of the confidence / stress / intensity grid
Scale == 5
\* number of seeds of the random source that are explored
MaxSeed == 12
\* most faces one image analysis reports
MaxFaces == 1

\* how many calls run concurrently
MaxTasks == 2

\* the latest date considered, counted in days from date.min (day 1)
MaxDay == 3

\* most progress entries one call is given
MaxEntries == 3

----------------------------------------------------------------------------
(* Helpers: Python built-ins *)

Range(s) == {s[i] : i \in DOMAIN s}

\* dict.get(key, default)
DictGet(d, k, default) == IF k \in DOMAIN d THEN d[k] ELSE default

\* round(n/d) for d > 0, ties to even (Python's round on an exact tie)
RoundDiv(n, d) ==
    LET q == n \div d
        r == n % d
    IN  IF 2 * r < d THEN q
        ELSE IF 2 * r > d THEN q + 1
        ELSE IF q % 2 = 0 THEN q ELSE q + 1

\* str.lower() on the labels of the model's universe
LowerTable ==
    [ Happy |-> "happy", Sad |-> "sad", Angry |-> "angry", Fear |-> "fear",
      Surprise |-> "surprise", Disgust |-> "disgust", Neutral |-> "neutral",
      Contempt |-> "contempt", Sadness |-> "sadness", JOY |-> "joy",
      Confused |-> "confused" ]

Lower(s) == IF s \in DOMAIN LowerTable THEN LowerTable[s] ELSE s

\* the k-th draw random() makes in a call, as an integer below n
RandStride == <<1, 2, 3, 1, 1, 1, 1>>

RandBelow(seed, k, n) == (seed \div RandStride[k]) % n

\* random.choice(seq), the k-th draw of the call
RandomChoice(seq, seed, k) == seq[RandBelow(seed, k, Len(seq)) + 1]

\* random.sample(population, count) for len(population) <= 21: draw number k
\* picks pool[j] among the first n entries, then pool[j] = pool[n-1] and the
\* next draw picks among the first n-1
RECURSIVE RandomSample(_, _, _, _)
RandomSample(pool, count, seed, k) ==
    IF count = 0 THEN << >>
    ELSE LET n == Len(pool)
             j == RandBelow(seed, k, n) + 1
             rest == SubSeq([pool EXCEPT ![j] = pool[n]], 1, n - 1)
         IN  <<pool[j]>> \o RandomSample(rest, count - 1, seed, k + 1)

Min(a, b) == IF a <= b THEN a ELSE b

\* list[:n]
Take(s, n) == IF Len(s) <= n THEN s ELSE SubSeq(s, 1, n)

----------------------------------------------------------------------------
(* recommend.py: the static rule tables of EmpatheticRecommender *)

emotion_responses ==
    [ joy |->
        [ acknowledgment |-> << "I'm glad to see you're in such a positive mood!",
                                "Your enthusiasm is wonderful!",
                                "Love seeing your positive energy!" >>,
          learning_tip   |-> << "This is a great time to tackle challenging topics!",
                                "Your positive mindset will help you learn faster.",
                                "Channel this energy into creative problem-solving!" >>,
          activity       |-> << "Try learning something new and exciting",
                                "Work on a project you're passionate about",
                                "Share your knowledge with others" >> ],
      sadness |->
        [ acknowledgment |-> << "I notice you might be feeling down. That's okay.",
                                "It's alright to feel sad sometimes. I'm here for you.",
                                "Your feelings are valid. Take your time." >>,
          learning_tip   |-> << "Start with something simple and rewarding today.",
                                "Small progress is still progress. Be gentle with yourself.",
                                "Focus on topics that usually bring you comfort." >>,
          activity       |-> << "Take a break and do something you enjoy",
                                "Connect with a friend or loved one",
                                "Practice self-compassion exercises" >> ],
      anger |->
        [ acknowledgment |-> << "I sense some frustration. Let's work through this together.",
                                "It's okay to feel angry. Let's channel it productively.",
                                "Your feelings matter. Let's find a constructive outlet." >>,
          learning_tip   |-> << "Take a short break before continuing your studies.",
                                "Physical activity might help clear your mind first.",
                                "Break down complex problems into manageable steps." >>,
          activity       |-> << "Try a quick breathing exercise (4-7-8 technique)",
                                "Go for a brief walk or do some stretches",
                                "Write down what's bothering you to process it" >> ],
      fear |->
        [ acknowledgment |-> << "I understand you might be feeling anxious or worried.",
                                "Fear is natural. Let's take this step by step.",
                                "You're not alone in feeling this way." >>,
          learning_tip   |-> << "Start with familiar topics to build confidence.",
                                "Break your goals into very small, achievable steps.",
                                "Remember past challenges you've successfully overcome." >>,
          activity       |-> << "Practice grounding techniques (5-4-3-2-1 method)",
                                "List three things you've accomplished recently",
                                "Reach out to your support network" >> ],
      surprise |->
        [ acknowledgment |-> << "Something unexpected? I'm here to help!",
                                "Surprises can be great learning opportunities!",
                                "Embrace the unexpected!" >>,
          learning_tip   |-> << "This is perfect for exploring new perspectives!",
                                "Use your curiosity to dive deeper into topics.",
                                "Unexpected moments often lead to breakthroughs." >>,
          activity       |-> << "Explore a related topic you haven't considered",
                                "Ask 'why' and 'what if' questions",
                                "Document your discoveries" >> ],
      love |->
        [ acknowledgment |-> << "Your warmth and positivity shine through!",
                                "That's beautiful! Love is a powerful motivator.",
                                "Your caring nature is wonderful!" >>,
          learning_tip   |-> << "Your passion will fuel deep understanding.",
                                "Connect your learning to what you care about.",
                                "Share your enthusiasm with others!" >>,
          activity       |-> << "Mentor someone or share your knowledge",
                                "Create something meaningful",
                                "Express gratitude for your learning journey" >> ],
      neutral |->
        [ acknowledgment |-> << "You seem calm and centered. Good place to start!",
                                "A neutral state is perfect for focused learning.",
                                "Great mindset for tackling tasks!" >>,
          learning_tip   |-> << "This is ideal for complex problem-solving.",
                                "Your focus will serve you well today.",
                                "Maintain this balanced approach." >>,
          activity       |-> << "Dive into your most important tasks",
                                "Practice deep work techniques",
                                "Set clear, achievable goals" >> ],
      disgust |->
        [ acknowledgment |-> << "Something doesn't feel right? Let's address it.",
                                "I understand that reaction. Let's reframe this.",
                                "Your instincts are telling you something." >>,
          learning_tip   |-> << "Sometimes resistance reveals important insights.",
                                "Try approaching the topic from a different angle.",
                                "Focus on why this matters in the bigger picture." >>,
          activity       |-> << "Take a brief pause to reset",
                                "Find a more engaging resource on the topic",
                                "Connect the material to your interests" >> ] ]

learning_strategies ==
    [ low_stress |->
        << "Set ambitious learning goals for today",
           "Tackle that challenging concept you've been avoiding",
           "Practice active recall and spaced repetition",
           "Teach someone else what you're learning",
           "Experiment with advanced applications" >>,
      moderate_stress |->
        << "Break your study session into 25-minute intervals (Pomodoro)",
           "Add background music or white noise if helpful",
           "Focus on one topic at a time",
           "Review what you already know before new material",
           "Use visual aids and diagrams to simplify concepts" >>,
      high_stress |->
        << "Take a 10-minute break before continuing",
           "Start with the easiest task to build momentum",
           "Make a simple checklist to reduce overwhelm",
           "Try a 2-minute mindfulness exercise",
           "Consider studying with a supportive peer" >>,
      optimal_flow |->
        << "You're in the flow state - keep going!",
           "Channel this energy into your most important work",
           "This is perfect for creative problem-solving",
           "Push your boundaries while you're in this zone",
           "Build on this momentum for maximum progress" >> ]

motivational_quotes ==
    << "Every expert was once a beginner. Keep going!",
       "Progress, not perfection. You're doing great!",
       "Your brain is like a muscle - the more you use it, the stronger it gets!",
       "Mistakes are proof that you're trying. Keep learning!",
       "The only way to do great work is to love what you do.",
       "Small daily improvements lead to stunning results.",
       "You are capable of amazing things!",
       "Learning is a journey, not a destination. Enjoy the process!",
       "Believe in yourself. You've overcome challenges before!",
       "Your potential is limitless. Keep pushing forward!" >>

\* _generate_study_plan: the curated table, keyed by <<emotion, stress_level>>
plans ==
    ( <<"joy", "low">> :>
        [ duration |-> "45-60 minutes", approach |-> "Intensive deep work",
          breaks |-> "Every 45 minutes",
          recommendation |-> "Perfect time for challenging material!" ] )
    @@ ( <<"sadness", "high">> :>
        [ duration |-> "15-20 minutes", approach |-> "Gentle review of familiar topics",
          breaks |-> "Frequent, every 15 minutes",
          recommendation |-> "Be kind to yourself. Small steps count." ] )
    @@ ( <<"anger", "high">> :>
        [ duration |-> "10 minutes after calming",
          approach |-> "Physical activity first, then study",
          breaks |-> "Take breaks when needed",
          recommendation |-> "Reset your mind before diving in." ] )
    @@ ( <<"fear", "moderate">> :>
        [ duration |-> "25-30 minutes",
          approach |-> "Start with confidence-building review",
          breaks |-> "Every 25 minutes",
          recommendation |-> "Build momentum with what you know." ] )

\* _generate_study_plan: the plan returned when the key is not in the table
default_plan ==
    [ duration |-> "30-40 minutes", approach |-> "Balanced focus with regular breaks",
      breaks |-> "Every 30 minutes",
      recommendation |-> "Maintain a steady, sustainable pace." ]

\* generate_wellness_recommendations: the three score-based lists
score_recommendations ==
    [ below40 |-> << "Consider taking a longer break (15-30 minutes)",
                     "Reach out to someone you trust",
                     "If feelings persist, consider professional support",
                     "Focus only on essential tasks today" >>,
      below60 |-> << "Practice mindfulness or meditation",
                     "Light exercise can boost your mood",
                     "Limit screen time outside of necessary tasks",
                     "Ensure you're getting adequate sleep" >>,
      otherwise |-> << "Great mental state! Use it wisely",
                       "This is ideal for tackling big goals",
                       "Help others who might be struggling",
                       "Invest in long-term learning projects" >> ]

emotion_wellness ==
    [ sadness |-> << "Get some sunlight or bright light exposure",
                     "Listen to uplifting music" >>,
      anger   |-> << "Try physical exercise to release tension",
                     "Journal your thoughts" >>,
      fear    |-> << "Practice grounding techniques", "Read something comforting" >>,
      joy     |-> << "Capture this positive moment", "Spread positivity to others" >> ]

----------------------------------------------------------------------------
(* recommend.py: EmpatheticRecommender's methods *)

\* f'{stress_level}_stress' on the stress levels of the model's universe
StressSuffix ==
    [ low |-> "low_stress", moderate |-> "moderate_stress", high |-> "high_stress",
      optimal |-> "optimal_stress", extreme |-> "extreme_stress" ]

\* generate_response, line 254
strategy_key(stress_level) ==
    IF stress_level # "optimal" THEN StressSuffix[stress_level] ELSE "optimal_flow"

\* Faulty variant: an unknown emotion gets the first entry of the table
emotion_data_of_default_joy(emotion) ==
    DictGet(emotion_responses, emotion, emotion_responses["joy"])

\* generate_response, line 246
emotion_data_of(emotion) ==
    DictGet(emotion_responses, emotion, emotion_responses["neutral"])

\* Faulty variant: the strategies always come from the moderate_stress entry
strategies_of_always_moderate(stress_level) == learning_strategies["moderate_stress"]

\* generate_response, line 255
strategies_of(stress_level) ==
    DictGet(learning_strategies, strategy_key(stress_level),
            learning_strategies["moderate_stress"])

\* Faulty variant: a miss gets an empty plan, plans.get(key, {})
_generate_study_plan_no_default(emotion, stress_level) ==
    LET key == <<emotion, stress_level>>
    IN  IF key \in DOMAIN plans THEN plans[key] ELSE << >>

\* Faulty variant: the key is built in the wrong order
_generate_study_plan_swapped_key(emotion, stress_level) ==
    LET key == <<stress_level, emotion>>
    IN  IF key \in DOMAIN plans THEN plans[key] ELSE default_plan

\* _generate_study_plan, lines 285-323
_generate_study_plan(emotion, stress_level) ==
    LET key == <<emotion, stress_level>>
    IN  IF key \in DOMAIN plans THEN plans[key] ELSE default_plan

\* Faulty variant: the comparisons are > instead of >=
_get_confidence_note_strict(confidence) ==
    IF 10 * confidence > 8 * Scale
    THEN "I'm very confident about this assessment."
    ELSE IF 10 * confidence > 6 * Scale
    THEN "This assessment seems reliable."
    ELSE IF 10 * confidence > 4 * Scale
    THEN "This is my best estimate - let me know if it feels off."
    ELSE "I'm somewhat uncertain - please provide more context if needed."

\* _get_confidence_note, lines 325-342
_get_confidence_note(confidence) ==
    IF 10 * confidence >= 8 * Scale
    THEN "I'm very confident about this assessment."
    ELSE IF 10 * confidence >= 6 * Scale
    THEN "This assessment seems reliable."
    ELSE IF 10 * confidence >= 4 * Scale
    THEN "This is my best estimate - let me know if it feels off."
    ELSE "I'm somewhat uncertain - please provide more context if needed."

\* Faulty variant: the last branch is "elif mind_score < 80", without an else
score_tier_no_else(mind_score) ==
    IF mind_score < 400 THEN score_recommendations["below40"]
    ELSE IF mind_score < 600 THEN score_recommendations["below60"]
    ELSE IF mind_score < 800 THEN score_recommendations["otherwise"]
    ELSE << >>

\* Faulty variant: the comparisons are <= instead of <
score_tier_inclusive(mind_score) ==
    IF mind_score <= 400 THEN score_recommendations["below40"]
    ELSE IF mind_score <= 600 THEN score_recommendations["below60"]
    ELSE score_recommendations["otherwise"]

\* generate_wellness_recommendations, lines 360-381: the score-based list
score_tier(mind_score) ==
    IF mind_score < 400 THEN score_recommendations["below40"]
    ELSE IF mind_score < 600 THEN score_recommendations["below60"]
    ELSE score_recommendations["otherwise"]

\* generate_wellness_recommendations, lines 383-392: the emotion's tips
emotion_tips(emotion) ==
    IF emotion \in DOMAIN emotion_wellness THEN emotion_wellness[emotion] ELSE << >>

\* Faulty variant: the list is cut to four entries, recommendations[:4]
generate_wellness_capped_at_four(mind_score, emotion, stress_level) ==
    Take(score_tier(mind_score) \o emotion_tips(emotion), 4)

\* Faulty variant: the emotion's tips come before the score-based list
generate_wellness_emotion_first(mind_score, emotion, stress_level) ==
    Take(emotion_tips(emotion) \o score_tier(mind_score), 6)

\* generate_wellness_recommendations, lines 391-394
generate_wellness_recommendations(mind_score, emotion, stress_level) ==
    Take(score_tier(mind_score) \o emotion_tips(emotion), 6)

generate_response(emotion0, confidence, stress_level, mind_score, seed) ==
    LET emotion      == Lower(emotion0)
        emotion_data == emotion_data_of(emotion)
    IN  [ acknowledgment      |-> RandomChoice(emotion_data["acknowledgment"], seed, 1),
          learning_tip        |-> RandomChoice(emotion_data["learning_tip"], seed, 2),
          suggested_activity  |-> RandomChoice(emotion_data["activity"], seed, 3),
          learning_strategies |-> LET pool == strategies_of(stress_level)
                                 IN  RandomSample(pool, Min(3, Len(pool)), seed, 4),
          motivational_quote  |-> RandomChoice(motivational_quotes, seed, 7),
          study_plan          |-> _generate_study_plan(emotion, stress_level),
          confidence_note     |-> _get_confidence_note(confidence) ]

\* Faulty variant: the bands are open on their lower bound
generate_encouragement_strict(mind_score) ==
    IF mind_score > 800
    THEN "You're doing amazingly well! Keep up this fantastic momentum!"
    ELSE IF mind_score > 600
    THEN "You're on a good path! Stay consistent and you'll see great results!"
    ELSE IF mind_score > 400
    THEN "You're making progress! Every step forward counts!"
    ELSE "Be gentle with yourself. Tomorrow is a new opportunity!"


generate_encouragement(mind_score) ==
    IF mind_score >= 800
    THEN "You're doing amazingly well! Keep up this fantastic momentum!"
    ELSE IF mind_score >= 600
    THEN "You're on a good path! Stay consistent and you'll see great results!"
    ELSE IF mind_score >= 400
    THEN "You're making progress! Every step forward counts!"
    ELSE "Be gentle with yourself. Tomorrow is a new opportunity!"

get_personalized_feedback(emotion_data, stress_data, seed) ==
    LET emotion      == DictGet(emotion_data, "dominant_emotion", "neutral")
        confidence   == DictGet(emotion_data, "confidence", 0)
        stress_level == DictGet(stress_data, "stress_level", "moderate")
        mind_score   == DictGet(DictGet(stress_data, "mind_score", << >>),
                                "mind_score", 500)
        response     == generate_response(emotion, confidence, stress_level,
                                          mind_score, seed)
        wellness_recs == generate_wellness_recommendations(mind_score, emotion,
                                                           stress_level)
    IN  [ empathetic_response |->
            [ acknowledgment  |-> response.acknowledgment,
              confidence_note |-> response.confidence_note ],
          learning_guidance |->
            [ tip        |-> response.learning_tip,
              strategies |-> response.learning_strategies,
              study_plan |-> response.study_plan ],
          immediate_actions |->
            [ suggested_activity       |-> response.suggested_activity,
              wellness_recommendations |-> wellness_recs ],
          motivation |->
            [ quote         |-> response.motivational_quote,
              encouragement |-> generate_encouragement(mind_score) ] ]

high_energy_emotions == {"joy", "surprise", "love"}

low_energy_emotions == {"sadness", "fear"}

\* Faulty variant: the second branch needs a low-energy emotion and high stress
get_learning_mode_both_needed(emotion, stress_level) ==
    IF emotion \in high_energy_emotions /\ stress_level = "low"
    THEN "Intensive Mode: Tackle complex problems and new concepts"
    ELSE IF emotion \in low_energy_emotions /\ stress_level = "high"
    THEN "Gentle Mode: Review familiar material and consolidate knowledge"
    ELSE IF stress_level = "moderate"
    THEN "Balanced Mode: Mix of review and new learning with breaks"
    ELSE "Standard Mode: Regular study pace with periodic breaks"

\* get_learning_mode_recommendation, lines 478-485
get_learning_mode_recommendation(emotion, stress_level) ==
    IF emotion \in high_energy_emotions /\ stress_level = "low"
    THEN "Intensive Mode: Tackle complex problems and new concepts"
    ELSE IF emotion \in low_energy_emotions \/ stress_level = "high"
    THEN "Gentle Mode: Review familiar material and consolidate knowledge"
    ELSE IF stress_level = "moderate"
    THEN "Balanced Mode: Mix of review and new learning with breaks"
    ELSE "Standard Mode: Regular study pace with periodic breaks"

----------------------------------------------------------------------------
(* text_sentiment.py *)

\* 'positive' in sentiment.lower(): the labels of the model's universe that
\* contain the word
LabelsContaining ==
    [ positive |-> {"positive", "POSITIVE", "very positive"},
      negative |-> {"negative", "NEGATIVE"},
      neutral  |-> {"neutral"} ]

Contains(sentiment, word) == sentiment \in LabelsContaining[word]

positive_emotions == {"joy", "surprise", "love"}

negative_emotions == {"sadness", "anger", "fear", "disgust"}

\* Faulty variant: the branch for a neutral emotion is missing
aligned_of_without_neutral(emotion, sentiment) ==
    IF emotion \in positive_emotions /\ Contains(sentiment, "positive") THEN TRUE
    ELSE IF emotion \in negative_emotions /\ Contains(sentiment, "negative") THEN TRUE
    ELSE FALSE

\* combine_emotion_and_sentiment, lines 182-188
aligned_of(emotion, sentiment) ==
    IF emotion \in positive_emotions /\ Contains(sentiment, "positive") THEN TRUE
    ELSE IF emotion \in negative_emotions /\ Contains(sentiment, "negative") THEN TRUE
    ELSE IF emotion = "neutral" /\ Contains(sentiment, "neutral") THEN TRUE
    ELSE FALSE

\* Faulty variant: the sign of a negative sentiment is lost
sentiment_polarity_unsigned(sentiment, sentiment_confidence) ==
    ( IF Contains(sentiment, "positive") THEN 1
      ELSE IF Contains(sentiment, "negative") THEN 1 ELSE 0 ) * sentiment_confidence

\* combine_emotion_and_sentiment, lines 192-193: the polarity, in 1/Scale
sentiment_polarity_of(sentiment, sentiment_confidence) ==
    ( IF Contains(sentiment, "positive") THEN 1
      ELSE IF Contains(sentiment, "negative") THEN -1 ELSE 0 ) * sentiment_confidence

\* Faulty variant: emotion and sentiment are weighted equally
overall_mood_equal_weights(emotion_valence, sentiment_polarity) ==
    RoundDiv(10 * (5 * emotion_valence + 5 * 10 * sentiment_polarity), Scale)

\* combine_emotion_and_sentiment, lines 195 and 207:
\* round(emotion_valence * 0.6 + sentiment_polarity * 0.4, 3), in thousandths
\* (emotion_valence in 1/(10*Scale), sentiment_polarity in 1/Scale)
overall_mood_of(emotion_valence, sentiment_polarity) ==
    RoundDiv(10 * (6 * emotion_valence + 4 * 10 * sentiment_polarity), Scale)

interpret_combined_analysis(emotion, sentiment, aligned) ==
    IF aligned
    THEN << "Your ", emotion, " emotion aligns with ", sentiment,
            " sentiment, indicating a clear emotional state." >>
    ELSE << "There's a complexity in your emotional state - feeling ", emotion,
            " with ", sentiment, " undertones." >>

combine_emotion_and_sentiment(emotion_data, sentiment_data) ==
    LET emotion              == DictGet(emotion_data, "dominant_emotion", "neutral")
        emotion_confidence   == DictGet(emotion_data, "confidence", 0)
        sentiment            == DictGet(sentiment_data, "sentiment", "neutral")
        sentiment_confidence == DictGet(sentiment_data, "confidence", 0)
        aligned              == aligned_of(emotion, sentiment)
        emotion_valence      == DictGet(emotion_data, "valence", 0)
    IN  [ emotion      |-> [label |-> emotion, confidence |-> emotion_confidence],
          sentiment    |-> [label |-> sentiment, confidence |-> sentiment_confidence],
          aligned      |-> aligned,
          overall_mood |-> overall_mood_of(emotion_valence,
                               sentiment_polarity_of(sentiment, sentiment_confidence)),
          interpretation |-> interpret_combined_analysis(emotion, sentiment, aligned) ]

\* TextSentimentAnalyzer.get_sentiment_polarity, lines 114-123, on the result
\* of analyze()
get_sentiment_polarity(result) ==
    IF Contains(result.sentiment, "positive") THEN result.confidence
    ELSE IF Contains(result.sentiment, "negative") THEN - result.confidence
    ELSE 0

----------------------------------------------------------------------------
(* emotion_detector.py *)

emotion_labels == <<"Angry", "Disgust", "Fear", "Happy", "Sad", "Surprise", "Neutral">>

\* Faulty variant: the table has no entry for 'Disgust'
mapping_without_disgust ==
    [ Happy |-> "joy", Sad |-> "sadness", Angry |-> "anger", Fear |-> "fear",
      Surprise |-> "surprise", Neutral |-> "neutral" ]

\* map_facial_to_text_emotion, lines 297-305
mapping ==
    [ Happy |-> "joy", Sad |-> "sadness", Angry |-> "anger", Fear |-> "fear",
      Surprise |-> "surprise", Disgust |-> "disgust", Neutral |-> "neutral" ]

\* Faulty variant: the table is consulted only once the detector is loaded
map_facial_to_text_emotion_once_loaded(facial_emotion) ==
    IF facial_detector = [is_none |-> TRUE] THEN "neutral"
    ELSE DictGet(mapping, facial_emotion, "neutral")

map_facial_to_text_emotion(facial_emotion) == DictGet(mapping, facial_emotion, "neutral")

----------------------------------------------------------------------------
(* backend/services/recommend.py *)

RECOMMENDATION_DB ==
    [ happy |->
        << [ id |-> "r1", type |-> "lesson",
             title |-> "Level up: Positive reinforcement",
             description |-> "Short lesson on leveraging positive emotions",
             difficulty |-> "easy" ],
           [ id |-> "r2", type |-> "quiz", title |-> "Quick quiz: Confidence booster",
             description |-> "5-question quiz", difficulty |-> "easy" ] >>,
      sad |->
        << [ id |-> "r3", type |-> "lesson", title |-> "Growth mindset tips",
             description |-> "Gentle lesson focusing on progress",
             difficulty |-> "easy" ],
           [ id |-> "r4", type |-> "quiz", title |-> "Reflection quiz",
             description |-> "Self-reflection prompts", difficulty |-> "easy" ] >>,
      angry |->
        << [ id |-> "r5", type |-> "lesson", title |-> "Managing frustration",
             description |-> "Coping strategies lesson", difficulty |-> "medium" ] >>,
      neutral |->
        << [ id |-> "r6", type |-> "lesson", title |-> "Adaptive practice",
             description |-> "Balanced practice session", difficulty |-> "medium" ] >> ]

\* generate_recommendations, lines 24-25
recs_of(emotion) == DictGet(RECOMMENDATION_DB, Lower(emotion), RECOMMENDATION_DB["neutral"])

\* Faulty variant: only an intensity above 0.8 makes the content gentler
adjust_item_above_threshold(r, intensity) ==
    IF 10 * intensity > 8 * Scale /\ r.difficulty = "medium"
    THEN [r EXCEPT !.difficulty = "easy"]
    ELSE r

\* generate_recommendations, lines 29-33: one item of the result
adjust_item(r, intensity) ==
    IF 10 * intensity >= 8 * Scale /\ r.difficulty = "medium"
    THEN [r EXCEPT !.difficulty = "easy"]
    ELSE r

generate_recommendations(user_id, emotion, intensity) ==
    LET recs == recs_of(emotion)
    IN  [i \in DOMAIN recs |-> adjust_item(recs[i], intensity)]

----------------------------------------------------------------------------
(* ai_models/stress_analysis/predict.py is not part of the sources at hand: *)
(* the Signal Normalizer and the Aggregator are modelled from the written   *)
(* design (sections 4.1 and 4.2).                                           *)

\* base valence of each text emotion, in tenths
base_valence ==
    [ joy |-> 8, surprise |-> 5, love |-> 7, sadness |-> -7, anger |-> -6,
      fear |-> -6, disgust |-> -5, neutral |-> 0 ]

\* valence = base_valence(category) * confidence, in 1/(10*Scale);
\* an unknown category has valence 0
normalize_emotion(category, confidence) == DictGet(base_valence, category, 0) * confidence

\* the weights, in percent: without and with a sentiment reading
weights_without_sentiment == [emotion |-> 60, stress |-> 40, sentiment |-> 0]

weights_with_sentiment == [emotion |-> 50, stress |-> 30, sentiment |-> 20]

\* (valence + 1) / 2 * 100, in 1/Scale points (valence in 1/(10*Scale))
emotion_term(valence) == 5 * (valence + 10 * Scale)

\* Faulty variant: the stress score is not inverted
stress_term_not_inverted(stress_score) == 100 * stress_score

\* (1 - stress_score) * 100, in 1/Scale points (stress_score in 1/Scale)
stress_term(stress_score) == 100 * (Scale - stress_score)

Clamp(x, lo, hi) == IF x < lo THEN lo ELSE IF x > hi THEN hi ELSE x

\* category thresholds, on the value in tenths
mind_score_category(value) ==
    IF value < 400 THEN "critical"
    ELSE IF value < 600 THEN "low"
    ELSE IF value < 800 THEN "moderate"
    ELSE "good"

\* compute_mind_score(emotion_valence, stress_score, sentiment_polarity | null);
\* sentiment is << >> (null) or <<polarity>>, polarity in 1/(10*Scale).
\* The contributions are in 1/(100*Scale) points, the value in tenths.
compute_mind_score(valence, stress_score, sentiment) ==
    LET w  == IF sentiment = << >> THEN weights_without_sentiment
              ELSE weights_with_sentiment
        ec == w.emotion * emotion_term(valence)
        sc == w.stress * stress_term(stress_score)
        tc == IF sentiment = << >> THEN 0 ELSE w.sentiment * emotion_term(sentiment[1])
        value == Clamp(RoundDiv(ec + sc + tc, 10 * Scale), 0, 1000)
    IN  [ mind_score |-> value,
          category   |-> mind_score_category(value),
          breakdown  |->
              IF sentiment = << >>
              THEN [ emotion_contribution |-> ec, stress_contribution |-> sc ]
              ELSE [ emotion_contribution |-> ec, stress_contribution |-> sc,
                     sentiment_contribution |-> tc ] ]

----------------------------------------------------------------------------
(* The inputs the operations are exercised with *)

\* the text classifier's vocabulary (main.py, list_emotions)
text_emotions ==
    {"joy", "sadness", "anger", "fear", "surprise", "love", "disgust", "neutral"}

\* labels in and out of every table, in either letter case
EmotionInputs == text_emotions \cup {"Sadness", "JOY", "Confused", "bored"}

FacialInputs == Range(emotion_labels) \cup {"Contempt", "joy"}

BackendInputs == {"happy", "sad", "angry", "neutral", "Happy", "Angry", "joy", "bored"}

StressLevels == {"low", "moderate", "high", "optimal", "extreme"}

SentimentInputs ==
    {"positive", "negative", "neutral", "POSITIVE", "NEGATIVE", "very positive", "mixed"}

\* labels TextSentimentAnalyzer.analyze can return: the pipeline's label,
\* lower-cased
AnalyzedSentiments == {"positive", "negative", "neutral", "very positive", "mixed"}

Confidences == 0 .. Scale

\* what a caller can pass as a confidence: a float, in [0,1] or just outside it
ReadingConfidences == (-1) .. (Scale + 1)

Valences == (-10 * Scale) .. (10 * Scale)

\* sentiment polarities: +/- a confidence, in 1/(10*Scale)
Polarities == {10 * c : c \in (-Scale) .. Scale}

\* MindScores, in tenths
Scores == 0 .. 1000

\* the scores on both sides of each band boundary
BoundaryScores == {0, 399, 400, 599, 600, 799, 800, 1000}

Seeds == 0 .. (MaxSeed - 1)

\* {}
EmptyDict == << >>

EmotionDicts ==
    { [dominant_emotion |-> e, confidence |-> c] :
          e \in EmotionInputs, c \in ReadingConfidences }
    \cup { [dominant_emotion |-> e] : e \in EmotionInputs }
    \cup { [confidence |-> c] : c \in Confidences }
    \cup { EmptyDict }

\* stress_data['mind_score']: absent, {} or {'mind_score': value}
MindScoreDicts == { [mind_score |-> s] : s \in BoundaryScores } \cup { EmptyDict }

StressDicts ==
    { [stress_level |-> l, mind_score |-> m] : l \in StressLevels, m \in MindScoreDicts }
    \cup { [stress_level |-> l] : l \in StressLevels }
    \cup { [mind_score |-> m] : m \in MindScoreDicts }
    \cup { EmptyDict }

----------------------------------------------------------------------------
(* The state machine: each action is one call of one operation *)

\* facial_detector = None
NoDetector == [is_none |-> TRUE]

\* _sentiment_analyzer: Optional[TextSentimentAnalyzer] = None
NoAnalyzer == [is_none |-> TRUE]

\* the event loop's tasks
Tasks == 1 .. MaxTasks

Init ==
    /\ op = "none"
    /\ args = EmptyDict
    /\ ret = EmptyDict
    /\ facial_detector = NoDetector
    /\ recommendation_db = RECOMMENDATION_DB
    /\ tasks = [p \in Tasks |-> [pc |-> "idle"]]
    /\ earlier = [op |-> "none"]
    /\ _sentiment_analyzer = NoAnalyzer

\* no call is in progress
Idle == op = "none"

\* a call leaves its name, its inputs and its result
Call(name, a, r) ==
    /\ op' = name
    /\ args' = a
    /\ ret' = r
    /\ UNCHANGED <<recommendation_db, tasks, earlier, _sentiment_analyzer>>

ComputeMindScore ==
    /\ Idle
    /\ \E v \in Valences, s \in Confidences, t \in {<< >>} \cup {<<p>> : p \in Polarities} :
        /\ Call("compute_mind_score",
                [valence |-> v, stress_score |-> s, sentiment |-> t],
                compute_mind_score(v, s, t))
        /\ UNCHANGED facial_detector

GenerateEncouragement ==
    /\ Idle
    /\ \E s \in Scores :
        /\ Call("generate_encouragement", [mind_score |-> s], generate_encouragement(s))
        /\ UNCHANGED facial_detector

GetConfidenceNote ==
    /\ Idle
    /\ \E c \in ReadingConfidences :
        /\ Call("_get_confidence_note", [confidence |-> c], _get_confidence_note(c))
        /\ UNCHANGED facial_detector

GenerateStudyPlan ==
    /\ Idle
    /\ \E e \in EmotionInputs, l \in StressLevels :
        /\ Call("_generate_study_plan", [emotion |-> e, stress_level |-> l],
                _generate_study_plan(e, l))
        /\ UNCHANGED facial_detector

GenerateWellnessRecommendations ==
    /\ Idle
    /\ \E s \in BoundaryScores, e \in EmotionInputs, l \in StressLevels :
        /\ Call("generate_wellness_recommendations",
                [mind_score |-> s, emotion |-> e, stress_level |-> l],
                generate_wellness_recommendations(s, e, l))
        /\ UNCHANGED facial_detector

\* two calls for the same emotion and stress level: ret is the pair of results
CompareWellnessRecommendations ==
    /\ Idle
    /\ \E s1 \in BoundaryScores, s2 \in BoundaryScores, e \in EmotionInputs :
        /\ Call("generate_wellness_recommendations x2",
                [mind_score1 |-> s1, mind_score2 |-> s2, emotion |-> e,
                 stress_level |-> "moderate"],
                << generate_wellness_recommendations(s1, e, "moderate"),
                   generate_wellness_recommendations(s2, e, "moderate") >>)
        /\ UNCHANGED facial_detector

GenerateResponse ==
    /\ Idle
    /\ \E e \in EmotionInputs, c \in Confidences, l \in StressLevels, seed \in Seeds :
        /\ Call("generate_response",
                [emotion |-> e, confidence |-> c, stress_level |-> l, seed |-> seed],
                generate_response(e, c, l, 500, seed))
        /\ UNCHANGED facial_detector

GetPersonalizedFeedback ==
    /\ Idle
    /\ \E ed \in EmotionDicts, sd \in StressDicts, seed \in Seeds :
        /\ Call("get_personalized_feedback",
                [emotion_data |-> ed, stress_data |-> sd, seed |-> seed],
                get_personalized_feedback(ed, sd, seed))
        /\ UNCHANGED facial_detector

GetLearningModeRecommendation ==
    /\ Idle
    /\ \E e \in EmotionInputs, l \in StressLevels :
        /\ Call("get_learning_mode_recommendation", [emotion |-> e, stress_level |-> l],
                get_learning_mode_recommendation(e, l))
        /\ UNCHANGED facial_detector

CombineEmotionAndSentiment ==
    /\ Idle
    /\ \E e \in text_emotions \cup {"Confused"}, c \in Confidences,
       s \in SentimentInputs, sc \in Confidences :
        \E ed \in { [dominant_emotion |-> e, confidence |-> c,
                     valence |-> normalize_emotion(e, c)],
                    [dominant_emotion |-> e, confidence |-> c],
                    EmptyDict },
           sd \in { [sentiment |-> s, confidence |-> sc], EmptyDict } :
            /\ Call("combine_emotion_and_sentiment",
                    [emotion_data |-> ed, sentiment_data |-> sd],
                    combine_emotion_and_sentiment(ed, sd))
            /\ UNCHANGED facial_detector

\* get_sentiment_polarity on a text that analyze() gives this result for
GetSentimentPolarity ==
    /\ Idle
    /\ \E l \in AnalyzedSentiments, c \in Confidences :
        LET result == [sentiment |-> l, confidence |-> c]
        IN  /\ Call("get_sentiment_polarity", [result |-> result],
                    get_sentiment_polarity(result))
            /\ UNCHANGED facial_detector

MapFacialToTextEmotion ==
    /\ Idle
    /\ \E f \in FacialInputs :
        /\ Call("map_facial_to_text_emotion", [facial_emotion |-> f],
                map_facial_to_text_emotion(f))
        /\ UNCHANGED facial_detector

GenerateRecommendations ==
    /\ Idle
    /\ \E e \in BackendInputs, i \in Confidences :
        /\ Call("generate_recommendations",
                [user_id |-> "u1", emotion |-> e, intensity |-> i],
                generate_recommendations("u1", e, i))
        /\ UNCHANGED facial_detector

\* the caller takes the result: nothing of the call remains but the globals
Return ==
    /\ op # "none"
    /\ op' = "none"
    /\ args' = EmptyDict
    /\ ret' = EmptyDict
    /\ UNCHANGED <<facial_detector, recommendation_db, tasks, earlier, _sentiment_analyzer>>

Next ==
    \/ Return
    \/ ComputeMindScore
    \/ GenerateEncouragement
    \/ GetConfidenceNote
    \/ GenerateStudyPlan
    \/ GenerateWellnessRecommendations
    \/ CompareWellnessRecommendations
    \/ GenerateResponse
    \/ GetPersonalizedFeedback
    \/ GetLearningModeRecommendation
    \/ CombineEmotionAndSentiment
    \/ GetSentimentPolarity
    \/ MapFacialToTextEmotion
    \/ GenerateRecommendations

Spec == Init /\ [][Next]_vars

----------------------------------------------------------------------------
(* ai_models/stress_analysis/predict.py, analyze_text_wellness: modelled from  *)
(* the written design and from what main.py and recommend.py read out of its   *)
(* result.  Whether emotion_analysis carries 'valence' and stress_analysis     *)
(* carries 'mind_score' is not decided by the sources at hand: both shapes     *)
(* are results ("rich" carries them, "bare" does not).                         *)

\* main.py, list_stress_levels: low 0.0-0.33, moderate 0.34-0.66, high 0.67-1.0
stress_level_of(stress_score) ==
    IF 100 * stress_score < 34 * Scale THEN "low"
    ELSE IF 100 * stress_score < 67 * Scale THEN "moderate"
    ELSE "high"

analyze_text_wellness(emotion, confidence, stress_score, shape) ==
    LET valence == normalize_emotion(emotion, confidence)
        score   == compute_mind_score(valence, stress_score, << >>)
        level   == stress_level_of(stress_score)
    IN  [ emotion_analysis |->
              IF shape = "rich"
              THEN [dominant_emotion |-> emotion, confidence |-> confidence,
                    valence |-> valence]
              ELSE [dominant_emotion |-> emotion, confidence |-> confidence],
          stress_analysis |->
              IF shape = "rich"
              THEN [stress_level |-> level, stress_score |-> stress_score,
                    mind_score |-> score]
              ELSE [stress_level |-> level, stress_score |-> stress_score],
          mind_score |-> score ]

WellnessResults(emotions, confidences, stress_scores) ==
    { analyze_text_wellness(e, c, s, shape) :
        e \in emotions, c \in confidences, s \in stress_scores,
        shape \in {"rich", "bare"} }

\* a collaborator that raised, and one that was not called
Raises == [raises |-> TRUE]

NotCalled == [called |-> FALSE]

\* what TextSentimentAnalyzer.analyze returns (the label is lower-cased)
SentimentResults ==
    { [sentiment |-> l, confidence |-> c] :
        l \in {"positive", "negative", "neutral"}, c \in Confidences }

----------------------------------------------------------------------------
(* main.py: the handlers *)

HTTPException(status_code, detail) == [status |-> status_code, detail |-> detail]

\* except Exception as e: raise HTTPException(500, f"Analysis failed: {str(e)}")
AnalysisFailed(e) == HTTPException(500, <<"Analysis failed: ", e>>)

\* analyze_text, lines 181-210: the dictionary the handler returns
analyze_text_result(wellness, include_sentiment, sentiment, include_recommendations, seed) ==
    wellness
    @@ ( IF include_sentiment
         THEN [ sentiment_analysis |-> sentiment,
                combined_analysis  |->
                    combine_emotion_and_sentiment(wellness.emotion_analysis, sentiment) ]
         ELSE EmptyDict )
    @@ ( IF include_recommendations
         THEN [ recommendations |->
                    get_personalized_feedback(wellness.emotion_analysis,
                                              wellness.stress_analysis, seed),
                learning_mode |->
                    get_learning_mode_recommendation(
                        wellness.emotion_analysis.dominant_emotion,
                        wellness.stress_analysis.stress_level) ]
         ELSE EmptyDict )

\* response_model=TextAnalysisResponse: the fields of the result that are sent
\* (timestamp, input_text and wellness_summary are left out of the model)
TextAnalysisResponse(result) ==
    [ k \in DOMAIN result \cap {"emotion_analysis", "stress_analysis",
                                "sentiment_analysis", "mind_score", "recommendations"}
        |-> result[k] ]

AnalyzeText ==
    /\ Idle
    /\ \E wellness \in WellnessResults(text_emotions, Confidences, Confidences),
          include_sentiment \in BOOLEAN, include_recommendations \in BOOLEAN :
        \E sentiment \in IF include_sentiment THEN SentimentResults \cup {Raises}
                         ELSE {NotCalled},
           seed \in IF include_recommendations THEN Seeds ELSE {0} :
            LET request == [ wellness |-> wellness,
                             include_sentiment |-> include_sentiment,
                             sentiment |-> sentiment,
                             include_recommendations |-> include_recommendations,
                             seed |-> seed ]
            IN  IF sentiment = Raises
                THEN Call("analyze_text", request, AnalysisFailed("analyze_sentiment"))
                ELSE LET result == analyze_text_result(wellness, include_sentiment,
                                       sentiment, include_recommendations, seed)
                     IN  Call("analyze_text", request,
                              [ status |-> 200, result |-> result,
                                body |-> TextAnalysisResponse(result) ])
    /\ UNCHANGED facial_detector

NextText ==
    \/ Return
    \/ AnalyzeText

SpecText == Init /\ [][NextText]_vars

----------------------------------------------------------------------------
(* emotion_detector.py: FacialEmotionDetector, and main.py's image handlers *)

\* FacialEmotionDetector.__init__: nothing is loaded
NewDetector == [model |-> "None", face_cascade |-> "None"]

\* what initialize() can meet: everything loads; build_model raises; the cascade
\* cannot be constructed (load_face_detector raises before assigning it); the
\* cascade is constructed but empty (assigned, then load_face_detector raises)
InitializeOutcomes == {"ok", "build_model raises", "cascade raises", "cascade empty"}

\* the detector's fields after initialize() under the outcome
initialize(detector, outcome) ==
    IF outcome = "build_model raises" THEN detector
    ELSE IF outcome = "cascade raises" THEN [detector EXCEPT !.model = "built"]
    ELSE IF outcome = "cascade empty"
    THEN [detector EXCEPT !.model = "built", !.face_cascade = "empty"]
    ELSE [detector EXCEPT !.model = "built", !.face_cascade = "loaded"]

initialize_raises(outcome) == outcome # "ok"

\* main.py, lines 233-235 and 297-299: the global after the lazy initialisation
lazy_detector(detector, outcome) ==
    IF detector = NoDetector THEN initialize(NewDetector, outcome) ELSE detector

\* ... and whether that initialisation raised
lazy_detector_raises(detector, outcome) ==
    detector = NoDetector /\ initialize_raises(outcome)

\* FacialEmotionDetector.analyze_image raises: detect_faces without a usable
\* cascade, predict_emotion without a model
analyze_image_raises(detector, faces) ==
    \/ detector.face_cascade # "loaded"
    \/ faces # << >> /\ detector.model = "None"

\* FacialEmotionDetector.analyze_image on the faces the cascade finds
detector_analyze_image(faces) ==
    [ faces_detected |-> Len(faces),
      faces |-> [i \in DOMAIN faces |-> [emotion |-> faces[i]]] ]

\* predict_emotion's result for one face: a label of emotion_labels
FaceReadings ==
    { [dominant_emotion |-> l, confidence |-> Scale] : l \in Range(emotion_labels) }

RECURSIVE SeqsUpTo(_, _)
SeqsUpTo(S, n) ==
    IF n = 0 THEN { << >> }
    ELSE LET shorter == SeqsUpTo(S, n - 1)
         IN  shorter \cup { Append(s, x) : s \in {q \in shorter : Len(q) = n - 1},
                                           x \in S }

\* an upload: what cv2.imdecode makes of it and the faces in it
Uploads ==
    { [decodes |-> FALSE, faces |-> << >>] }
    \cup { [decodes |-> TRUE, faces |-> fs] : fs \in SeqsUpTo(FaceReadings, MaxFaces) }

\* analyze_image, lines 248-251: mapped_emotion is added to each face
with_mapped_emotion(result) ==
    [ result EXCEPT !.faces =
        [ i \in DOMAIN result.faces |->
            [ emotion |->
                result.faces[i].emotion
                @@ [ mapped_emotion |->
                       map_facial_to_text_emotion(
                           result.faces[i].emotion.dominant_emotion) ] ] ] ]

\* POST /api/v1/analyze/image.  The HTTPException(400) of line 243 is raised
\* inside the try block and caught by "except Exception" (line 259).
AnalyzeImage ==
    /\ Idle
    /\ \E upload \in Uploads, outcome \in InitializeOutcomes :
        LET detector == lazy_detector(facial_detector, outcome)
            request  == [upload |-> upload]
        IN  /\ facial_detector' = detector
            /\ IF lazy_detector_raises(facial_detector, outcome)
               THEN Call("analyze_image", request, AnalysisFailed("initialize"))
               ELSE IF ~ upload.decodes
               THEN Call("analyze_image", request,
                         AnalysisFailed(HTTPException(400, "Invalid image file")))
               ELSE IF analyze_image_raises(detector, upload.faces)
               THEN Call("analyze_image", request, AnalysisFailed("analyze_image"))
               ELSE Call("analyze_image", request,
                         [ status |-> 200,
                           analysis |-> with_mapped_emotion(
                                            detector_analyze_image(upload.faces)) ])

\* Faulty variant: the number of detected faces is not looked at
combined_insights_ignoring_faces(text_analysis, image_analysis) ==
    IF text_analysis # NotCalled /\ image_analysis # NotCalled
    THEN [ alignment |-> "misaligned", interpretation |-> << >> ]
    ELSE [none |-> TRUE]

\* comprehensive_analysis, lines 310-321: combined_insights, or "None"
combined_insights(text_analysis, image_analysis) ==
    IF text_analysis # NotCalled /\ image_analysis # NotCalled
       /\ image_analysis.faces_detected > 0
    THEN LET facial_emotion == image_analysis.faces[1].emotion.dominant_emotion
             text_emotion   == text_analysis.emotion_analysis.dominant_emotion
             alignment == IF Lower(facial_emotion) = Lower(text_emotion)
                          THEN "aligned" ELSE "misaligned"
         IN  [ alignment |-> alignment,
               interpretation |->
                   << "Facial expression shows ", facial_emotion,
                      " while text conveys ", text_emotion, ". This ",
                      IF alignment = "aligned" THEN "confirms"
                      ELSE "suggests complexity in",
                      " your emotional state." >> ]
    ELSE [none |-> TRUE]

\* Faulty variant: recommendations are added to every response, from whatever
\* readings there are
comprehensive_results_always_recommending(text_analysis, image_analysis, seed) ==
    [ text_analysis     |-> text_analysis,
      image_analysis    |-> image_analysis,
      combined_insights |-> combined_insights(text_analysis, image_analysis),
      recommendations   |->
          IF text_analysis # NotCalled
          THEN get_personalized_feedback(text_analysis.emotion_analysis,
                                         text_analysis.stress_analysis, seed)
          ELSE get_personalized_feedback(EmptyDict, EmptyDict, seed) ]

\* comprehensive_analysis, lines 282-331: the dictionary the handler returns;
\* an analysis that was not made is NotCalled (None in the source)
comprehensive_results(text_analysis, image_analysis, seed) ==
    [ text_analysis     |-> text_analysis,
      image_analysis    |-> image_analysis,
      combined_insights |-> combined_insights(text_analysis, image_analysis) ]
    @@ ( IF text_analysis # NotCalled
         THEN [ recommendations |->
                    get_personalized_feedback(text_analysis.emotion_analysis,
                                              text_analysis.stress_analysis, seed) ]
         ELSE EmptyDict )

\* the text analyses the comprehensive handler is exercised with
ComprehensiveTexts ==
    { NotCalled } \cup WellnessResults(text_emotions, {Scale}, {0, Scale})

\* POST /api/v1/analyze/comprehensive; image is NotCalled (no upload) or an upload
ComprehensiveAnalysis ==
    /\ Idle
    /\ \E text_analysis \in ComprehensiveTexts, image \in {NotCalled} \cup Uploads,
          outcome \in InitializeOutcomes :
        \E seed \in IF text_analysis = NotCalled THEN {0} ELSE Seeds :
            LET detector == IF image = NotCalled THEN facial_detector
                            ELSE lazy_detector(facial_detector, outcome)
                request  == [text_analysis |-> text_analysis, image |-> image,
                             seed |-> seed]
                decoded  == image # NotCalled /\ image.decodes
            IN  /\ facial_detector' = detector
                /\ IF image # NotCalled /\ lazy_detector_raises(facial_detector, outcome)
                   THEN Call("comprehensive_analysis", request,
                             AnalysisFailed("initialize"))
                   ELSE IF decoded /\ analyze_image_raises(detector, image.faces)
                   THEN Call("comprehensive_analysis", request,
                             AnalysisFailed("analyze_image"))
                   ELSE Call("comprehensive_analysis", request,
                             [ status |-> 200,
                               results |-> comprehensive_results(
                                   text_analysis,
                                   IF decoded THEN detector_analyze_image(image.faces)
                                   ELSE NotCalled,
                                   seed) ])

NextImage ==
    \/ Return
    \/ AnalyzeImage
    \/ ComprehensiveAnalysis

SpecImage == Init /\ [][NextImage]_vars

----------------------------------------------------------------------------
(* Concurrent calls on one event loop.  A coroutine runs without interruption *)
(* from one await to the next: generate_recommendations yields once, at its   *)
(* "await asyncio.sleep(0.01)"; get_personalized_feedback has no await.       *)

\* generate_recommendations, lines 24-25, on the table as it is when read
recs_in(db, emotion) == DictGet(db, Lower(emotion), db["neutral"])

\* generate_recommendations, lines 27-35, on the table as it is when read
recommendations_from(db, emotion, intensity) ==
    LET recs == recs_in(db, emotion)
    IN  [i \in DOMAIN recs |-> adjust_item(recs[i], intensity)]

\* the key of the table's entry the loop works on
entry_key(db, emotion) ==
    IF Lower(emotion) \in DOMAIN db THEN Lower(emotion) ELSE "neutral"

\* Faulty variant: item = r instead of item = r.copy(), so that the loop's
\* assignment to item["difficulty"] is made in the table's own entry
db_after_loop_without_copy(db, emotion, intensity) ==
    [ db EXCEPT ![entry_key(db, emotion)] =
        [i \in DOMAIN @ |-> adjust_item(@[i], intensity)] ]

\* the table after the loop of lines 27-34: item = r.copy() (line 29), the
\* assignment of line 33 is made in the copy
db_after_loop(db, emotion, intensity) == db

\* the requests the concurrent calls are made with
ConcurrentRecommendationArgs ==
    { [user_id |-> "u1", emotion |-> e, intensity |-> i] :
        e \in {"Happy", "angry", "bored"}, i \in {0, Scale} }

ConcurrentFeedbackArgs ==
    { [ emotion_data |-> [dominant_emotion |-> e, confidence |-> Scale],
        stress_data  |-> [stress_level |-> "high"],
        seed |-> seed ] : e \in {"joy", "sadness"}, seed \in {0, 1} }

\* generate_recommendations is called and runs up to its await
StartGenerateRecommendations ==
    \E p \in Tasks, a \in ConcurrentRecommendationArgs :
        /\ tasks[p].pc = "idle"
        /\ tasks' = [tasks EXCEPT ![p] =
                        [pc |-> "sleeping", fn |-> "generate_recommendations",
                         args |-> a]]
        /\ UNCHANGED <<op, args, ret, facial_detector, recommendation_db, earlier,
                       _sentiment_analyzer>>

\* ... and is resumed: lines 24-35 run to the return
ResumeGenerateRecommendations ==
    \E p \in Tasks :
        /\ tasks[p].pc = "sleeping"
        /\ LET a == tasks[p].args
           IN  /\ tasks' = [tasks EXCEPT ![p] =
                    [pc |-> "done", fn |-> "generate_recommendations", args |-> a,
                     result |-> recommendations_from(recommendation_db, a.emotion,
                                                     a.intensity)]]
               /\ recommendation_db' =
                      db_after_loop(recommendation_db, a.emotion, a.intensity)
        /\ UNCHANGED <<op, args, ret, facial_detector, earlier, _sentiment_analyzer>>

\* get_personalized_feedback runs from call to return; its recommender and
\* the recommender's tables are built by the call (line 408)
RunGetPersonalizedFeedback ==
    \E p \in Tasks, a \in ConcurrentFeedbackArgs :
        /\ tasks[p].pc = "idle"
        /\ tasks' = [tasks EXCEPT ![p] =
                        [pc |-> "done", fn |-> "get_personalized_feedback", args |-> a,
                         result |-> get_personalized_feedback(a.emotion_data,
                                                              a.stress_data, a.seed)]]
        /\ UNCHANGED <<op, args, ret, facial_detector, recommendation_db, earlier,
                       _sentiment_analyzer>>

\* the caller takes the result of a finished call
TakeResult ==
    \E p \in Tasks :
        /\ tasks[p].pc = "done"
        /\ tasks' = [tasks EXCEPT ![p] = [pc |-> "idle"]]
        /\ UNCHANGED <<op, args, ret, facial_detector, recommendation_db, earlier,
                       _sentiment_analyzer>>

NextConcurrent ==
    \/ StartGenerateRecommendations
    \/ ResumeGenerateRecommendations
    \/ RunGetPersonalizedFeedback
    \/ TakeResult

SpecConcurrent == Init /\ [][NextConcurrent]_vars

----------------------------------------------------------------------------
(* Repeated calls: a call is made again after any sequence of other calls,   *)
(* among them the image handler, which sets main.py's global detector.       *)

\* the feedback requests that are repeated
RepeatedFeedbackArgs ==
    { [ emotion_data |-> [dominant_emotion |-> e, confidence |-> c],
        stress_data  |-> [stress_level |-> l, mind_score |-> [mind_score |-> s]],
        seed |-> seed ] :
        e \in {"sadness", "bored"}, c \in {0, Scale}, l \in {"high", "low"},
        s \in {399, 800}, seed \in {0, MaxSeed - 1} }

RepeatGetPersonalizedFeedback ==
    /\ Idle
    /\ \E a \in RepeatedFeedbackArgs :
        /\ Call("get_personalized_feedback", a,
                get_personalized_feedback(a.emotion_data, a.stress_data, a.seed))
        /\ UNCHANGED facial_detector

\* the calls whose results are compared
ComparedCalls ==
    {"map_facial_to_text_emotion", "get_personalized_feedback",
     "get_learning_mode_recommendation"}

\* the call that has just returned is kept for a later comparison
Remember ==
    /\ op \in ComparedCalls
    /\ earlier' = [op |-> op, args |-> args, ret |-> ret]
    /\ UNCHANGED <<op, args, ret, facial_detector, recommendation_db, tasks,
                   _sentiment_analyzer>>

NextRepeat ==
    \/ Return
    \/ Remember
    \/ MapFacialToTextEmotion
    \/ GetLearningModeRecommendation
    \/ RepeatGetPersonalizedFeedback
    \/ AnalyzeImage

SpecRepeat == Init /\ [][NextRepeat]_vars

----------------------------------------------------------------------------
(* text_sentiment.py: the global analyzer *)

\* TextSentimentAnalyzer.__init__: self.pipeline = None
NewAnalyzer == [pipeline |-> "None"]

\* what load_model() can meet: the first pipeline loads; it raises and the
\* fallback pipeline loads; it raises and the fallback raises as well
LoadModelOutcomes == {"ok", "fallback", "fallback raises"}

\* the analyzer's fields after load_model() under the outcome
load_model(analyzer, outcome) ==
    IF outcome = "ok"
    THEN [analyzer EXCEPT !.pipeline = "cardiffnlp/twitter-roberta-base-sentiment-latest"]
    ELSE IF outcome = "fallback"
    THEN [analyzer EXCEPT !.pipeline = "distilbert-base-uncased-finetuned-sst-2-english"]
    ELSE analyzer

\* the exception that leaves load_model(): the fallback pipeline's, uncaught
load_model_raises(outcome) == outcome = "fallback raises"

\* an exception leaving a call
Raised(e) == [raised |-> e]

\* get_sentiment_analyzer, lines 138-144: the global after the call
sentiment_analyzer_after(analyzer, outcome) ==
    IF analyzer = NoAnalyzer THEN load_model(NewAnalyzer, outcome) ELSE analyzer

\* ... and whether the call raised instead of returning the global
get_sentiment_analyzer_raises(analyzer, outcome) ==
    analyzer = NoAnalyzer /\ load_model_raises(outcome)

\* the texts analyze() tells apart: empty, blank, anything else
SentimentTexts == {"", "   ", "I passed my exam"}

IsBlank(text) == text \in {"", "   "}

\* what the pipeline reports as the dominant label and its score, or that it raises
PipelineOutputs ==
    { [label |-> l, score |-> c] :
        l \in {"positive", "negative", "neutral", "POSITIVE", "NEGATIVE"},
        c \in Confidences } \cup {Raises}

\* TextSentimentAnalyzer.analyze, lines 60-101
analyze(analyzer, text, output) ==
    IF analyzer.pipeline = "None"
    THEN Raised("Model not loaded. Call load_model() first.")
    ELSE IF IsBlank(text) THEN [sentiment |-> "neutral", confidence |-> 0]
    ELSE IF output = Raises THEN Raised("pipeline")
    ELSE [sentiment |-> Lower(output.label), confidence |-> output.score]

GetSentimentAnalyzer ==
    /\ Idle
    /\ \E outcome \in LoadModelOutcomes :
        LET analyzer == sentiment_analyzer_after(_sentiment_analyzer, outcome)
        IN  /\ _sentiment_analyzer' = analyzer
            /\ op' = "get_sentiment_analyzer"
            /\ args' = EmptyDict
            /\ ret' = IF get_sentiment_analyzer_raises(_sentiment_analyzer, outcome)
                      THEN Raised("load_model")
                      ELSE analyzer
            /\ UNCHANGED <<facial_detector, recommendation_db, tasks, earlier>>

\* analyze_sentiment, lines 147-158
AnalyzeSentiment ==
    /\ Idle
    /\ \E text \in SentimentTexts, output \in PipelineOutputs,
          outcome \in LoadModelOutcomes :
        LET analyzer == sentiment_analyzer_after(_sentiment_analyzer, outcome)
        IN  /\ _sentiment_analyzer' = analyzer
            /\ op' = "analyze_sentiment"
            /\ args' = [text |-> text, output |-> output]
            /\ ret' = IF get_sentiment_analyzer_raises(_sentiment_analyzer, outcome)
                      THEN Raised("load_model")
                      ELSE analyze(analyzer, text, output)
            /\ UNCHANGED <<facial_detector, recommendation_db, tasks, earlier>>

NextSentiment ==
    \/ Return
    \/ GetSentimentAnalyzer
    \/ AnalyzeSentiment

SpecSentiment == Init /\ [][NextSentiment]_vars

----------------------------------------------------------------------------
(* backend/utils/stats_utils.py.  A date is its proleptic ordinal: date.min  *)
(* is day 1 and subtracting a day from it raises OverflowError.              *)

\* date.min.toordinal()
MinDate == 1

\* utils/constants.py
PROGRESS_DEFAULTS == [required_minutes_per_day |-> 10, lookback_days |-> 30]

\* the dates entries carry and the dates "today" can be: after date.min
EntryDates == (MinDate + 1) .. MaxDay

\* an entry: "timestamp" and "duration_minutes" may each be missing (or None)
StreakEntries ==
    { [timestamp |-> d, duration_minutes |-> m] : d \in EntryDates, m \in {0, 5, 10} }
        \cup { [timestamp |-> d] : d \in EntryDates }
        \cup { [duration_minutes |-> m] : m \in {5, 10} }

Thresholds == {-5, 0, 5, PROGRESS_DEFAULTS.required_minutes_per_day}

\* Faulty variant: a day's minutes are those of its last entry, not the sum
daily_minutes_last_entry(entries) ==
    LET dates == { entries[i].timestamp :
                     i \in { j \in DOMAIN entries : "timestamp" \in DOMAIN entries[j] } }
    IN  [ d \in dates |->
            LET last == CHOOSE i \in DOMAIN entries :
                            /\ "timestamp" \in DOMAIN entries[i]
                            /\ entries[i].timestamp = d
                            /\ \A j \in DOMAIN entries :
                                   ("timestamp" \in DOMAIN entries[j]
                                        /\ entries[j].timestamp = d) => j <= i
            IN  DictGet(entries[last], "duration_minutes", 0) ]

\* daily_streak, lines 22-27: the minutes of each day that has an entry
RECURSIVE daily_minutes_of(_)
daily_minutes_of(entries) ==
    IF entries = << >> THEN << >>
    ELSE LET e == entries[Len(entries)]
             daily_minutes == daily_minutes_of(SubSeq(entries, 1, Len(entries) - 1))
         IN  IF "timestamp" \notin DOMAIN e THEN daily_minutes
             ELSE LET date == e.timestamp
                      minutes == DictGet(daily_minutes, date, 0)
                                     + DictGet(e, "duration_minutes", 0)
                  IN  [ d \in DOMAIN daily_minutes \cup {date} |->
                          IF d = date THEN minutes ELSE daily_minutes[d] ]

\* daily_streak, lines 29-33: the loop, from the day and the streak it has reached
RECURSIVE streak_loop(_, _, _, _)
streak_loop(daily_minutes, today, threshold, streak) ==
    IF DictGet(daily_minutes, today, 0) >= threshold
    THEN IF today = MinDate
         THEN Raised("OverflowError: date value out of range")
         ELSE streak_loop(daily_minutes, today - 1, threshold, streak + 1)
    ELSE [streak |-> streak]

daily_streak(entries, threshold, today) ==
    streak_loop(daily_minutes_of(entries), today, threshold, 0)

DailyStreak ==
    /\ Idle
    /\ \E entries \in SeqsUpTo(StreakEntries, MaxEntries), threshold \in Thresholds,
          today \in EntryDates :
        /\ Call("daily_streak",
                [entries |-> entries, threshold |-> threshold, today |-> today],
                daily_streak(entries, threshold, today))
        /\ UNCHANGED facial_detector

NextStats ==
    \/ Return
    \/ DailyStreak

SpecStats == Init /\ [][NextStats]_vars

----------------------------------------------------------------------------
(* Properties *)

IsPrefix(s, t) == Len(s) <= Len(t) /\ SubSeq(t, 1, Len(s)) = s

\* C1: for every valence in [-1,1] and every stress score in [0,1], sentiment
\* absent, the MindScore value lies in [0,100] (and so does the unrounded sum of
\* the contributions, so the clamp never acts); it is 0.0 at valence=-1,
\* stress=1 and 100.0 at valence=1, stress=0.
C1_MindScoreInRange ==
    (op = "compute_mind_score" /\ args.sentiment = << >>) =>
        LET sum == ret.breakdown.emotion_contribution + ret.breakdown.stress_contribution
        IN  /\ 0 <= ret.mind_score /\ ret.mind_score <= 1000
            /\ 0 <= sum /\ sum <= 1000 * 10 * Scale
            /\ (args.valence = -10 * Scale /\ args.stress_score = Scale)
                   => ret.mind_score = 0
            /\ (args.valence = 10 * Scale /\ args.stress_score = 0)
                   => ret.mind_score = 1000

C1_Witness ==
    /\ op = "compute_mind_score"
    /\ args.sentiment = << >>
    /\ args.valence = -10 * Scale
    /\ args.stress_score = Scale
    /\ ret.mind_score = 0

\* the message of each band
encouragement_of_band ==
    [ good     |-> "You're doing amazingly well! Keep up this fantastic momentum!",
      moderate |-> "You're on a good path! Stay consistent and you'll see great results!",
      low      |-> "You're making progress! Every step forward counts!",
      critical |-> "Be gentle with yourself. Tomorrow is a new opportunity!" ]

\* the four bands of the claim, as intervals of tenths
BandInterval ==
    [ critical |-> 0 .. 399, low |-> 400 .. 599, moderate |-> 600 .. 799,
      good |-> 800 .. 1000 ]

\* C2: the four score bands are closed on their lower bound (40.0 is "low",
\* 60.0 "moderate", 80.0 "good", anything below 40 "critical"), they are
\* disjoint and cover [0,100], and generate_encouragement selects its message
\* by exactly these bands.
C2_BandsClosedBelow ==
    op = "generate_encouragement" =>
        LET s == args.mind_score
        IN  /\ Cardinality({b \in DOMAIN BandInterval : s \in BandInterval[b]}) = 1
            /\ s \in BandInterval[mind_score_category(s)]
            /\ \A b \in DOMAIN BandInterval :
                   (ret = encouragement_of_band[b]) <=> (s \in BandInterval[b])

C2_Witness ==
    /\ op = "generate_encouragement"
    /\ args.mind_score = 400
    /\ ret = encouragement_of_band["low"]
    /\ mind_score_category(400) = "low"

\* the value (tenths) of the weighted sum we * emotion term + ws * stress term
\* + wt * sentiment term, the weights in percent
WeightedValue(we, ws, wt, valence, stress_score, polarity) ==
    RoundDiv(we * 5 * (valence + 10 * Scale) + ws * 100 * (Scale - stress_score)
             + wt * 5 * (polarity + 10 * Scale), 10 * Scale)

\* a successful analyze_text call
TextAnalysed == op = "analyze_text" /\ ret.status = 200

\* the polarity (1/(10*Scale)) of the sentiment reading of an analyze_text call
PolarityOfRequest == 10 * get_sentiment_polarity(args.sentiment)

C4_NeverEmpty ==
    /\ op = "get_personalized_feedback" =>
           /\ Len(ret.learning_guidance.strategies) > 0
           /\ Len(ret.immediate_actions.wellness_recommendations) > 0
    /\ op = "generate_response" => Len(ret.learning_strategies) > 0
    /\ op = "generate_wellness_recommendations" => Len(ret) > 0

C4_Witness ==
    /\ op = "get_personalized_feedback"
    /\ args.emotion_data = [dominant_emotion |-> "bored"]
    /\ args.stress_data = [stress_level |-> "optimal", mind_score |-> [mind_score |-> 800]]
    /\ Len(ret.learning_guidance.strategies) = 3
    /\ Len(ret.immediate_actions.wellness_recommendations) = 4

\* the emotions of the bonus table
BonusEmotions == {"sadness", "anger", "fear", "joy"}

\* the score-tier list of a mind score, by the bands of the code
TierList(s) ==
    IF s < 400 THEN score_recommendations["below40"]
    ELSE IF s < 600 THEN score_recommendations["below60"]
    ELSE score_recommendations["otherwise"]

\* C5: generate_wellness_recommendations returns at most 6 entries: the
\* score-tier tips in table order, then the emotion's tips, which are present
\* only for an emotion of the bonus table; what is cut is cut from the tail.
C5_TierThenEmotionTips ==
    op = "generate_wellness_recommendations" =>
        LET tier == TierList(args.mind_score)
            tips == IF args.emotion \in BonusEmotions
                    THEN emotion_wellness[args.emotion] ELSE << >>
        IN  /\ Len(ret) <= 6
            /\ Len(ret) = Min(6, Len(tier) + Len(tips))
            /\ IsPrefix(ret, tier \o tips)
            /\ IsPrefix(tier, ret)
            /\ (Len(ret) > Len(tier)) => args.emotion \in BonusEmotions

C5_Witness ==
    /\ op = "generate_wellness_recommendations"
    /\ args.emotion = "sadness"
    /\ args.mind_score = 399
    /\ Len(ret) = 6
    /\ SubSeq(ret, 1, 4) = score_recommendations["below40"]
    /\ SubSeq(ret, 5, 6) = emotion_wellness["sadness"]

\* the score-tier part of a result: its first four entries
TierPart(recommendations) == Take(recommendations, 4)

WellnessCompared == op = "generate_wellness_recommendations x2"

\* C6 as claimed: two mind scores yield the same score-tier tips iff they fall
\* in the same one of the four bands <40, 40-59, 60-79, >=80.
C6_AsClaimed ==
    WellnessCompared =>
        ( (TierPart(ret[1]) = TierPart(ret[2]))
          <=> (mind_score_category(args.mind_score1)
               = mind_score_category(args.mind_score2)) )

\* the three bands of generate_wellness_recommendations
WellnessBand(s) == IF s < 400 THEN "<40" ELSE IF s < 600 THEN "40-59" ELSE ">=60"

\* C6 (amended): the score-tier tips are selected by three bands, <40, 40-59 and
\* >=60: for the same emotion, two mind scores yield the same score-tier tips
\* iff they fall in the same one of these three bands (60-79 and >=80 get the
\* same tips).
C6_ThreeBands ==
    WellnessCompared =>
        ( (TierPart(ret[1]) = TierPart(ret[2]))
          <=> (WellnessBand(args.mind_score1) = WellnessBand(args.mind_score2)) )

C6_Witness ==
    /\ WellnessCompared
    /\ args.mind_score1 = 600
    /\ args.mind_score2 = 800
    /\ TierPart(ret[1]) = TierPart(ret[2])
    /\ TierPart(ret[1]) = score_recommendations["otherwise"]

\* the four notes, by band
confidence_notes ==
    [ high      |-> "I'm very confident about this assessment.",
      medium    |-> "This assessment seems reliable.",
      low       |-> "This is my best estimate - let me know if it feels off.",
      uncertain |-> "I'm somewhat uncertain - please provide more context if needed." ]

\* C7: _get_confidence_note is a step function of the confidence c in [0,1]:
\* c >= 0.8 high, 0.6 <= c < 0.8 medium, 0.4 <= c < 0.6 low, c < 0.4
\* uncertain; every confidence gets exactly one of the four notes.
C7_ConfidenceBands ==
    op = "_get_confidence_note" =>
        LET c == args.confidence
        IN  /\ (ret = confidence_notes["high"]) <=> (10 * c >= 8 * Scale)
            /\ (ret = confidence_notes["medium"])
                   <=> (10 * c >= 6 * Scale /\ 10 * c < 8 * Scale)
            /\ (ret = confidence_notes["low"])
                   <=> (10 * c >= 4 * Scale /\ 10 * c < 6 * Scale)
            /\ (ret = confidence_notes["uncertain"]) <=> (10 * c < 4 * Scale)
            /\ Cardinality({b \in DOMAIN confidence_notes : ret = confidence_notes[b]}) = 1

\* a confidence of exactly 0.8 gets the high-confidence note
C7_Witness ==
    /\ op = "_get_confidence_note"
    /\ 10 * args.confidence = 8 * Scale
    /\ ret = confidence_notes["high"]

\* the keys of the curated study-plan table, as the claim lists them
CuratedKeys ==
    { <<"joy", "low">>, <<"sadness", "high">>, <<"anger", "high">>,
      <<"fear", "moderate">> }

\* the stress levels that key the stress-only table
KeyedLevels == {"low", "moderate", "high", "optimal"}

\* the entry of the stress-only table a stress level selects
StressOnlyEntry(stress_level) ==
    IF stress_level = "low" THEN learning_strategies["low_stress"]
    ELSE IF stress_level = "high" THEN learning_strategies["high_stress"]
    ELSE IF stress_level = "optimal" THEN learning_strategies["optimal_flow"]
    ELSE learning_strategies["moderate_stress"]

ResponseGenerated == op = "generate_response"

\* the key generate_response looks up: the lower-cased emotion and the level
RequestKey == <<Lower(args.emotion), args.stress_level>>

\* C8 as claimed: the exact tuple is looked up in the curated table first; on a
\* miss the entry is chosen by stress_level, so that the plans of two different
\* keyed stress levels that both miss are different entries.
C8_AsClaimed ==
    ResponseGenerated =>
        /\ DOMAIN plans = CuratedKeys
        /\ RequestKey \in CuratedKeys => ret.study_plan = plans[RequestKey]
        /\ (RequestKey \notin CuratedKeys /\ args.stress_level \in KeyedLevels) =>
               \A l \in KeyedLevels \ {args.stress_level} :
                   <<Lower(args.emotion), l>> \notin CuratedKeys =>
                       _generate_study_plan(Lower(args.emotion), l) # ret.study_plan

\* C8 (amended): the study plan is looked up by the exact (emotion,
\* stress_level) tuple in the curated table, whose keys are exactly (joy,low),
\* (sadness,high), (anger,high), (fear,moderate); on a miss it is the one
\* default plan, the same for every stress level.  The strategies come, on a
\* hit and on a miss alike, from the stress-only table entry that stress_level
\* selects (low, moderate, high, optimal; moderate for any other level), so an
\* entry is always found.
C8_PlanThenDefault ==
    ResponseGenerated =>
        /\ DOMAIN plans = CuratedKeys
        /\ RequestKey \in CuratedKeys => ret.study_plan = plans[RequestKey]
        /\ RequestKey \notin CuratedKeys =>
               ret.study_plan =
                   [ duration |-> "30-40 minutes",
                     approach |-> "Balanced focus with regular breaks",
                     breaks |-> "Every 30 minutes",
                     recommendation |-> "Maintain a steady, sustainable pace." ]
        /\ Range(ret.learning_strategies) \subseteq
               Range(StressOnlyEntry(args.stress_level))
        /\ Len(ret.learning_strategies) = 3

\* a miss at stress level high gets the default plan, and a hit gets strategies
\* of the stress-only table
C8_Witness ==
    /\ ResponseGenerated
    /\ args.emotion = "joy"
    /\ args.stress_level = "high"
    /\ ret.study_plan.duration = "30-40 minutes"
    /\ Range(ret.learning_strategies) \subseteq Range(learning_strategies["high_stress"])

\* the positive / negative / neutral bucket of a text emotion
Bucket(emotion) ==
    IF emotion \in positive_emotions THEN "positive"
    ELSE IF emotion \in negative_emotions THEN "negative"
    ELSE "neutral"

\* a comprehensive analysis that compared a facial and a text reading
ReadingsCompared ==
    /\ op = "comprehensive_analysis"
    /\ ret.status = 200
    /\ "alignment" \in DOMAIN ret.results.combined_insights

\* C9: a facial label and a text label that denote the same emotion, or the
\* same positive/negative/neutral bucket, once the facial label is mapped to
\* the text vocabulary, are reported as aligned.
C9_AlignedAfterBridging ==
    ReadingsCompared =>
        LET facial  == ret.results.image_analysis.faces[1].emotion.dominant_emotion
            text    == ret.results.text_analysis.emotion_analysis.dominant_emotion
            bridged == map_facial_to_text_emotion(facial)
        IN  (bridged = text \/ Bucket(bridged) = Bucket(text)) =>
                ret.results.combined_insights.alignment = "aligned"

\* C10: an unknown emotion label is never an error: map_facial_to_text_emotion,
\* generate_response and the backend generate_recommendations treat a label
\* outside their table as 'neutral' and return the neutral entry.
C10_UnknownIsNeutral ==
    /\ (op = "map_facial_to_text_emotion" /\ args.facial_emotion \notin DOMAIN mapping)
           => ret = "neutral"
    /\ (ResponseGenerated /\ Lower(args.emotion) \notin DOMAIN emotion_responses) =>
           /\ ret.acknowledgment \in Range(emotion_responses["neutral"].acknowledgment)
           /\ ret.learning_tip \in Range(emotion_responses["neutral"].learning_tip)
           /\ ret.suggested_activity \in Range(emotion_responses["neutral"].activity)
    /\ (op = "generate_recommendations"
        /\ Lower(args.emotion) \notin DOMAIN RECOMMENDATION_DB) =>
           /\ Len(ret) = 1
           /\ ret[1].id = "r6"
           /\ [ret[1] EXCEPT !.difficulty = "medium"] = RECOMMENDATION_DB["neutral"][1]

C10_Witness ==
    /\ ResponseGenerated
    /\ args.emotion = "bored"
    /\ ret.acknowledgment \in Range(emotion_responses["neutral"].acknowledgment)
    /\ ret.acknowledgment \notin Range(emotion_responses["joy"].acknowledgment)

\* the bundle get_personalized_feedback returns has these four sections
BundleSections ==
    {"empathetic_response", "learning_guidance", "immediate_actions", "motivation"}

FeedbackProduced == op = "get_personalized_feedback"

\* the confidence of a reading lies outside [0,1]
OutOfRange(confidence) == confidence < 0 \/ confidence > Scale

\* C11: a reading whose confidence is outside [0,1] is rejected: no
\* recommendation bundle is produced from it and it is not mapped to one of
\* the confidence notes.
C11_OutOfRangeRejected ==
    /\ (FeedbackProduced
        /\ "confidence" \in DOMAIN args.emotion_data
        /\ OutOfRange(args.emotion_data.confidence))
           => DOMAIN ret \cap BundleSections = {}
    /\ (op = "_get_confidence_note" /\ OutOfRange(args.confidence))
           => ret \notin Range(confidence_notes)

\* C12: when the emotion reading or the stress reading is missing from the
\* input, no bundle is built from substituted default values.
C12_MissingSignalFails ==
    (FeedbackProduced
     /\ ("dominant_emotion" \notin DOMAIN args.emotion_data
         \/ "stress_level" \notin DOMAIN args.stress_data))
        => DOMAIN ret \cap BundleSections = {}

\* a comprehensive analysis that returned its results
ComprehensiveReturned == op = "comprehensive_analysis" /\ ret.status = 200

\* the request carries two comparable readings: a text that was analysed, and
\* an image that decodes and shows at least one face
TwoComparableReadings ==
    /\ args.text_analysis # NotCalled
    /\ args.image # NotCalled
    /\ args.image.decodes
    /\ Len(args.image.faces) > 0

\* C13: combined_insights is null whenever fewer than two comparable readings
\* are available and non-null otherwise: it is set iff a text analysis is
\* present, an image analysis is present and at least one face was detected;
\* when set it carries an alignment of "aligned" or "misaligned".
C13_InsightsIffTwoReadings ==
    ComprehensiveReturned =>
        LET r == ret.results
        IN  /\ (r.combined_insights # [none |-> TRUE]) <=> TwoComparableReadings
            /\ (r.combined_insights # [none |-> TRUE]) <=>
                   ( /\ r.text_analysis # NotCalled
                     /\ r.image_analysis # NotCalled
                     /\ r.image_analysis.faces_detected > 0 )
            /\ TwoComparableReadings =>
                   r.combined_insights.alignment \in {"aligned", "misaligned"}

\* a text and an image without a face: both analyses are present, no insight
C13_Witness ==
    /\ ComprehensiveReturned
    /\ args.text_analysis # NotCalled
    /\ args.image # NotCalled
    /\ args.image.decodes
    /\ args.image.faces = << >>
    /\ ret.results.image_analysis.faces_detected = 0
    /\ ret.results.combined_insights = [none |-> TRUE]

\* the fields of a study plan
StudyPlanFields == {"duration", "approach", "breaks", "recommendation"}

\* a list of texts that is not empty and holds no empty text
Populated(list) == Len(list) > 0 /\ \A i \in DOMAIN list : list[i] # ""

\* C14: every bundle get_personalized_feedback returns has all its fields
\* present and non-empty (acknowledgment, confidence note, learning tip,
\* strategies, the four fields of the study plan, suggested activity, wellness
\* recommendations, quote, encouragement), for every emotion label, stress
\* level, confidence and mind score, and when keys are absent from the inputs.
C14_AllFieldsPopulated ==
    FeedbackProduced =>
        /\ DOMAIN ret = BundleSections
        /\ DOMAIN ret.empathetic_response = {"acknowledgment", "confidence_note"}
        /\ DOMAIN ret.learning_guidance = {"tip", "strategies", "study_plan"}
        /\ DOMAIN ret.immediate_actions =
               {"suggested_activity", "wellness_recommendations"}
        /\ DOMAIN ret.motivation = {"quote", "encouragement"}
        /\ ret.empathetic_response.acknowledgment # ""
        /\ ret.empathetic_response.confidence_note # ""
        /\ ret.learning_guidance.tip # ""
        /\ Populated(ret.learning_guidance.strategies)
        /\ \A k \in StudyPlanFields :
               /\ k \in DOMAIN ret.learning_guidance.study_plan
               /\ ret.learning_guidance.study_plan[k] # ""
        /\ ret.immediate_actions.suggested_activity # ""
        /\ Populated(ret.immediate_actions.wellness_recommendations)
        /\ ret.motivation.quote # ""
        /\ ret.motivation.encouragement # ""

\* both input dictionaries are empty and the bundle is the one of the defaults
C14_Witness ==
    /\ FeedbackProduced
    /\ DOMAIN args.emotion_data = {}
    /\ DOMAIN args.stress_data = {}
    /\ ret.learning_guidance.study_plan = default_plan
    /\ ret.empathetic_response.confidence_note = confidence_notes["uncertain"]
    /\ ret.motivation.encouragement = encouragement_of_band["low"]
    /\ Len(ret.immediate_actions.wellness_recommendations) = 4

\* the mind score get_personalized_feedback works with (tenths)
FeedbackMindScore ==
    DictGet(DictGet(args.stress_data, "mind_score", EmptyDict), "mind_score", 500)

\* the request is the scenario: emotion 'sadness', stress level 'high' and a
\* mind score below 60
SadnessHighScenario ==
    /\ FeedbackProduced
    /\ DictGet(args.emotion_data, "dominant_emotion", "neutral") = "sadness"
    /\ DictGet(args.stress_data, "stress_level", "moderate") = "high"
    /\ FeedbackMindScore < 600

\* C15: for emotion 'sadness' with stress level 'high' and a mind score below
\* 60 the study plan is the short, gentle curated entry (duration '15-20
\* minutes') and the wellness actions hold at least one sadness-specific tip.
C15_SadnessHighBundle ==
    /\ SadnessHighScenario =>
           /\ ret.learning_guidance.study_plan.duration = "15-20 minutes"
           /\ ret.learning_guidance.study_plan = plans[<<"sadness", "high">>]
           /\ Range(ret.immediate_actions.wellness_recommendations)
                  \cap Range(emotion_wellness["sadness"]) # {}
    /\ (op = "generate_wellness_recommendations" /\ args.emotion = "sadness"
        /\ args.mind_score < 600)
           => Range(ret) \cap Range(emotion_wellness["sadness"]) # {}
    /\ (op = "_generate_study_plan" /\ args.emotion = "sadness"
        /\ args.stress_level = "high")
           => ret.duration = "15-20 minutes"

C15_Witness ==
    /\ SadnessHighScenario
    /\ "confidence" \in DOMAIN args.emotion_data
    /\ 10 * args.emotion_data.confidence >= 8 * Scale
    /\ FeedbackMindScore = 399
    /\ ret.learning_guidance.study_plan.duration = "15-20 minutes"
    /\ "Listen to uplifting music"
           \in Range(ret.immediate_actions.wellness_recommendations)

\* the pools of the emotion a request names: its own, or those of neutral
MatchedPools ==
    LET e == Lower(args.emotion)
    IN  IF e \in DOMAIN emotion_responses THEN emotion_responses[e]
        ELSE emotion_responses["neutral"]

\* the entries of a list are pairwise distinct
Distinct(list) == \A i, j \in DOMAIN list : i # j => list[i] # list[j]

\* C16: whatever the random choices, each randomized field of
\* generate_response comes from the pool the inputs select: acknowledgment,
\* learning tip and activity from the pools of the lower-cased emotion (of
\* neutral for an unknown emotion), the quote from the quote list, and the
\* strategies are exactly 3 pairwise distinct members of the one pool that
\* stress_level selects; every strategies pool has at least 3 entries, all
\* different, so that this holds of every sample.
C16_RandomWithinMatchedPools ==
    /\ \A k \in DOMAIN learning_strategies :
           Len(learning_strategies[k]) >= 3 /\ Distinct(learning_strategies[k])
    /\ ResponseGenerated =>
           /\ ret.acknowledgment \in Range(MatchedPools.acknowledgment)
           /\ ret.learning_tip \in Range(MatchedPools.learning_tip)
           /\ ret.suggested_activity \in Range(MatchedPools.activity)
           /\ ret.motivational_quote \in Range(motivational_quotes)
           /\ Len(ret.learning_strategies) = 3
           /\ Distinct(ret.learning_strategies)
           /\ Range(ret.learning_strategies)
                  \subseteq Range(StressOnlyEntry(args.stress_level))

\* a sample that is not the head of its pool, for an emotion in capitals
C16_Witness ==
    /\ ResponseGenerated
    /\ args.emotion = "JOY"
    /\ args.stress_level = "low"
    /\ ret.acknowledgment \in Range(emotion_responses["joy"].acknowledgment)
    /\ ret.acknowledgment # emotion_responses["joy"].acknowledgment[1]
    /\ Range(ret.learning_strategies) \subseteq Range(learning_strategies["low_stress"])
    /\ ret.learning_strategies # Take(learning_strategies["low_stress"], 3)

\* the sentiment reading combine_emotion_and_sentiment works with
CombinedSentiment ==
    [ sentiment  |-> DictGet(args.sentiment_data, "sentiment", "neutral"),
      confidence |-> DictGet(args.sentiment_data, "confidence", 0) ]

\* overall_mood (thousandths) for a polarity in 1/Scale
MoodWithPolarity(polarity) ==
    RoundDiv(10 * (6 * DictGet(args.emotion_data, "valence", 0) + 4 * 10 * polarity),
             Scale)

\* the polarity as the claim words it: by the label itself
PolarityByLabel(reading) ==
    IF reading.sentiment = "positive" THEN reading.confidence
    ELSE IF reading.sentiment = "negative" THEN - reading.confidence
    ELSE 0

\* the polarity by the word the label contains, in any letter case
PolarityByWord(reading) ==
    IF Contains(reading.sentiment, "positive") THEN reading.confidence
    ELSE IF Contains(reading.sentiment, "negative") THEN - reading.confidence
    ELSE 0

\* C17 as claimed: the polarity is +confidence for the label 'positive',
\* -confidence for the label 'negative' and 0 for any other label, in
\* get_sentiment_polarity and inside combine_emotion_and_sentiment.
C17_AsClaimed ==
    /\ op = "get_sentiment_polarity" => ret = PolarityByLabel(args.result)
    /\ op = "combine_emotion_and_sentiment" =>
           ret.overall_mood = MoodWithPolarity(PolarityByLabel(CombinedSentiment))

\* C17 (amended): the polarity is +confidence for a label that contains
\* 'positive' (in any letter case), -confidence for one that contains
\* 'negative' and not 'positive', and 0 for every other label;
\* get_sentiment_polarity and the polarity inside
\* combine_emotion_and_sentiment agree on this for every label and confidence.
C17_PolarityByWord ==
    /\ op = "get_sentiment_polarity" => ret = PolarityByWord(args.result)
    /\ op = "combine_emotion_and_sentiment" =>
           /\ ret.overall_mood = MoodWithPolarity(PolarityByWord(CombinedSentiment))
           /\ ret.overall_mood =
                  MoodWithPolarity(get_sentiment_polarity(CombinedSentiment))

\* a label that is not 'negative' itself gets a negative polarity
C17_Witness ==
    /\ op = "combine_emotion_and_sentiment"
    /\ args.sentiment_data = [sentiment |-> "NEGATIVE", confidence |-> Scale]
    /\ "valence" \notin DOMAIN args.emotion_data
    /\ ret.overall_mood = -400

\* the result a finished call would have returned had it run alone
ResultAlone(task) ==
    IF task.fn = "generate_recommendations"
    THEN generate_recommendations(task.args.user_id, task.args.emotion,
                                  task.args.intensity)
    ELSE get_personalized_feedback(task.args.emotion_data, task.args.stress_data,
                                   task.args.seed)

InputsOf(call) ==
    IF call.op = "get_personalized_feedback"
    THEN [emotion_data |-> call.args.emotion_data, stress_data |-> call.args.stress_data]
    ELSE call.args

\* the part of a result that is not randomized
NonRandomized(call) ==
    IF call.op = "get_personalized_feedback"
    THEN [ study_plan      |-> call.ret.learning_guidance.study_plan,
           confidence_note |-> call.ret.empathetic_response.confidence_note,
           wellness_recommendations |->
               call.ret.immediate_actions.wellness_recommendations,
           encouragement   |-> call.ret.motivation.encouragement ]
    ELSE [ result |-> call.ret ]

\* the call that has just returned
ThisCall == [op |-> op, args |-> args, ret |-> ret]

\* the call that has just returned repeats the earlier one
RepeatsEarlier ==
    /\ op \in ComparedCalls
    /\ earlier.op = op
    /\ InputsOf(earlier) = InputsOf(ThisCall)

CombinedEmotion == DictGet(args.emotion_data, "dominant_emotion", "neutral")

\* the bucket of an emotion label, as the claim lists the buckets
EmotionBucket(emotion) ==
    IF emotion \in {"joy", "surprise", "love"} THEN "positive"
    ELSE IF emotion \in {"sadness", "anger", "fear", "disgust"} THEN "negative"
    ELSE IF emotion = "neutral" THEN "neutral"
    ELSE "no bucket"

\* the bucket of a sentiment label: the word it contains
SentimentBucket(sentiment) ==
    IF Contains(sentiment, "positive") THEN "positive"
    ELSE IF Contains(sentiment, "negative") THEN "negative"
    ELSE IF Contains(sentiment, "neutral") THEN "neutral"
    ELSE "no sentiment bucket"

\* C20: combine_emotion_and_sentiment reports aligned = true exactly when the
\* emotion and the sentiment fall in the same bucket (joy, surprise, love with
\* a positive sentiment; sadness, anger, fear, disgust with a negative one;
\* 'neutral' with a neutral one) and false in every other case; the
\* interpretation is the 'aligns with' template iff aligned and the
\* 'complexity' template otherwise, with both labels substituted in.
C20_AlignedIffSameBucket ==
    op = "combine_emotion_and_sentiment" =>
        LET e == CombinedEmotion
            s == CombinedSentiment.sentiment
        IN  /\ ret.aligned \in BOOLEAN
            /\ ret.aligned <=> (EmotionBucket(e) = SentimentBucket(s))
            /\ ret.aligned =>
                   ret.interpretation =
                       << "Your ", e, " emotion aligns with ", s,
                          " sentiment, indicating a clear emotional state." >>
            /\ ~ ret.aligned =>
                   ret.interpretation =
                       << "There's a complexity in your emotional state - feeling ",
                          e, " with ", s, " undertones." >>

\* a neutral emotion with a neutral sentiment is aligned
C20_Witness ==
    /\ op = "combine_emotion_and_sentiment"
    /\ "dominant_emotion" \in DOMAIN args.emotion_data
    /\ args.emotion_data.dominant_emotion = "neutral"
    /\ args.sentiment_data = [sentiment |-> "neutral", confidence |-> Scale]
    /\ ret.aligned
    /\ ret.interpretation[3] = " emotion aligns with "

\* the four learning modes
learning_modes ==
    [ intensive |-> "Intensive Mode: Tackle complex problems and new concepts",
      gentle    |-> "Gentle Mode: Review familiar material and consolidate knowledge",
      balanced  |-> "Balanced Mode: Mix of review and new learning with breaks",
      standard  |-> "Standard Mode: Regular study pace with periodic breaks" ]

\* C21: get_learning_mode_recommendation returns Intensive Mode iff the emotion
\* is in {joy, surprise, love} and stress_level is 'low'; otherwise Gentle Mode
\* if the emotion is in {sadness, fear} or stress_level is 'high'; otherwise
\* Balanced Mode if stress_level is 'moderate'; otherwise Standard Mode:
\* exactly one mode for every input.  The study plan of (joy, low) is the
\* curated high-energy / low-stress entry.
C21_LearningModeLadder ==
    /\ op = "get_learning_mode_recommendation" =>
           LET e == args.emotion
               l == args.stress_level
               intensive == e \in {"joy", "surprise", "love"} /\ l = "low"
               gentle    == ~ intensive /\ (e \in {"sadness", "fear"} \/ l = "high")
               balanced  == ~ intensive /\ ~ gentle /\ l = "moderate"
               standard  == ~ intensive /\ ~ gentle /\ ~ balanced
           IN  /\ (ret = learning_modes["intensive"]) <=> intensive
               /\ (ret = learning_modes["gentle"]) <=> gentle
               /\ (ret = learning_modes["balanced"]) <=> balanced
               /\ (ret = learning_modes["standard"]) <=> standard
               /\ Cardinality({m \in DOMAIN learning_modes : ret = learning_modes[m]}) = 1
    /\ (op = "_generate_study_plan" /\ args.emotion = "joy" /\ args.stress_level = "low")
           => ret = plans[<<"joy", "low">>] /\ ret # default_plan

C21_Witness ==
    /\ op = "get_learning_mode_recommendation"
    /\ args.emotion = "joy"
    /\ args.stress_level = "low"
    /\ ret = learning_modes["intensive"]

\* C22: comprehensive_analysis includes 'recommendations' in its response iff
\* text was supplied (a text analysis, with its emotion and stress readings, is
\* present); the bundle is the one of those two readings; an image-only
\* request returns the image analysis with no recommendations.
C22_RecommendationsIffText ==
    ComprehensiveReturned =>
        LET r == ret.results
        IN  /\ ("recommendations" \in DOMAIN r) <=> (args.text_analysis # NotCalled)
            /\ ("recommendations" \in DOMAIN r) <=> (r.text_analysis # NotCalled)
            /\ args.text_analysis # NotCalled =>
                   r.recommendations =
                       get_personalized_feedback(args.text_analysis.emotion_analysis,
                                                 args.text_analysis.stress_analysis,
                                                 args.seed)
            /\ (args.text_analysis = NotCalled /\ args.image # NotCalled
                /\ args.image.decodes) =>
                   /\ r.image_analysis # NotCalled
                   /\ r.image_analysis.faces_detected = Len(args.image.faces)
                   /\ "recommendations" \notin DOMAIN r

\* an image-only request: the face is analysed, nothing is recommended
C22_Witness ==
    /\ ComprehensiveReturned
    /\ args.text_analysis = NotCalled
    /\ args.image # NotCalled
    /\ args.image.decodes
    /\ Len(args.image.faces) = 1
    /\ ret.results.image_analysis.faces_detected = 1
    /\ "recommendations" \notin DOMAIN ret.results

\* an image request whose upload cannot be decoded, served with a detector
\* whose initialize() completed
UndecodableUpload ==
    /\ op = "analyze_image"
    /\ ~ args.upload.decodes
    /\ facial_detector = initialize(NewDetector, "ok")

\* C23: when the upload to POST /api/v1/analyze/image cannot be decoded into an
\* image, the client receives an HTTP 400 response with detail 'Invalid image
\* file' (and the detector's analyze_image is not invoked for the request).
C23_InvalidImageIs400 ==
    UndecodableUpload =>
        /\ ret.status = 400
        /\ ret.detail = "Invalid image file"

\* the request reached its call of facial_detector.analyze_image: the lazy
\* initialisation did not raise and the upload decoded
AnalyzeImageInvoked ==
    /\ \/ op = "analyze_image" /\ args.upload.decodes
       \/ op = "comprehensive_analysis" /\ args.image # NotCalled /\ args.image.decodes
    /\ \/ ret.status = 200
       \/ ret.detail[2] = "analyze_image"

\* C24: over any sequence of image and comprehensive requests, including ones
\* in which initialize() raises, analyze_image is only ever invoked on a
\* detector whose initialize() completed (model and face cascade both loaded):
\* the global facial_detector is never left non-None but uninitialized.
C24_AnalyzeOnInitialized ==
    AnalyzeImageInvoked => facial_detector = initialize(NewDetector, "ok")

\* C25: get_sentiment_analyzer returns an initialized analyzer: over any
\* sequence of calls, including ones where an earlier call raised while loading
\* the model, every call that returns yields the global analyzer with a loaded
\* pipeline, so a following analyze() never raises 'Model not loaded'.
C25_ReturnedAnalyzerLoaded ==
    /\ (op = "get_sentiment_analyzer" /\ ret # Raised("load_model"))
           => ret.pipeline # "None"
    /\ op = "analyze_sentiment"
           => ret # Raised("Model not loaded. Call load_model() first.")

\* the entries of the backend table under the lower-cased emotion (the
\* 'neutral' entries when the table has no such key)
TableEntries(emotion) ==
    IF Lower(emotion) \in DOMAIN RECOMMENDATION_DB
    THEN RECOMMENDATION_DB[Lower(emotion)]
    ELSE RECOMMENDATION_DB["neutral"]

\* C26: the backend generate_recommendations returns the table entries of the
\* (lower-cased) emotion in table order; when intensity >= 0.8 no returned item
\* has difficulty 'medium' (each 'medium' becomes 'easy') and every other field
\* is unchanged; when intensity < 0.8 the returned items equal the table
\* entries exactly.
C26_TableEntriesGentler ==
    op = "generate_recommendations" =>
        LET entries == TableEntries(args.emotion)
        IN  /\ Len(ret) = Len(entries)
            /\ \A i \in DOMAIN entries :
                IF 10 * args.intensity >= 8 * Scale
                THEN /\ ret[i].difficulty # "medium"
                     /\ ret[i].difficulty =
                            IF entries[i].difficulty = "medium" THEN "easy"
                            ELSE entries[i].difficulty
                     /\ \A k \in DOMAIN entries[i] \ {"difficulty"} :
                            ret[i][k] = entries[i][k]
                     /\ DOMAIN ret[i] = DOMAIN entries[i]
                ELSE ret[i] = entries[i]

\* a capitalised emotion whose entry is 'medium', at an intensity of exactly 0.8
C26_Witness ==
    /\ op = "generate_recommendations"
    /\ args.emotion = "Angry"
    /\ 10 * args.intensity = 8 * Scale
    /\ ret = << [RECOMMENDATION_DB["angry"][1] EXCEPT !.difficulty = "easy"] >>

\* the summed duration_minutes of the entries dated d
RECURSIVE MinutesOn(_, _)
MinutesOn(entries, d) ==
    IF entries = << >> THEN 0
    ELSE LET e == Head(entries)
         IN  (IF "timestamp" \in DOMAIN e /\ e.timestamp = d
                  /\ "duration_minutes" \in DOMAIN e
              THEN e.duration_minutes ELSE 0)
             + MinutesOn(Tail(entries), d)

\* the entries that carry a timestamp
Timestamped(entries) == SelectSeq(entries, LAMBDA e : "timestamp" \in DOMAIN e)

DailyStreakReturned == op = "daily_streak" /\ "streak" \in DOMAIN ret

\* C27: daily_streak returns the number of consecutive calendar days, counted
\* backwards starting from today, on each of which the summed duration_minutes
\* of the entries is at least threshold; it returns 0 when today's total is
\* below threshold, and entries without a timestamp are ignored.
C27_ConsecutiveDays ==
    DailyStreakReturned =>
        LET n == ret.streak
        IN  /\ n \in 0 .. (args.today - MinDate)
            /\ \A i \in 0 .. (n - 1) :
                   MinutesOn(args.entries, args.today - i) >= args.threshold
            /\ MinutesOn(args.entries, args.today - n) < args.threshold
            /\ MinutesOn(args.entries, args.today) < args.threshold => n = 0
            /\ ret = daily_streak(Timestamped(args.entries), args.threshold, args.today)

\* today's minutes reach the threshold only as a sum of two entries, and an
\* entry without a timestamp would reach it alone on no day
C27_Witness ==
    /\ DailyStreakReturned
    /\ ret.streak = 1
    /\ args.threshold = 10
    /\ args.entries = << [timestamp |-> args.today, duration_minutes |-> 5],
                         [duration_minutes |-> 10],
                         [timestamp |-> args.today, duration_minutes |-> 5] >>

\* the distinct dates present in the entries
DatesPresent(entries) ==
    { entries[i].timestamp :
        i \in { j \in DOMAIN entries : "timestamp" \in DOMAIN entries[j] } }

\* C28: daily_streak terminates and returns a count for every finite list of
\* entries and every integer threshold, including a threshold of 0 or below;
\* the returned streak never exceeds the number of distinct dates present in
\* the entries.
C28_ReturnsBoundedCount ==
    op = "daily_streak" =>
        /\ "streak" \in DOMAIN ret
        /\ ret.streak <= Cardinality(DatesPresent(args.entries))

\* the same emotion reading with its label in lower case
LowerCased(emotion_data) ==
    IF "dominant_emotion" \in DOMAIN emotion_data
    THEN [emotion_data EXCEPT !.dominant_emotion = Lower(@)]
    ELSE emotion_data

\* C29: get_personalized_feedback treats the emotion label case-insensitively
\* in every part of the bundle: for labels that differ only in letter case the
\* matched response pools, the study plan and the wellness recommendations
\* (including the emotion-specific tips) are the same, so under the same draws
\* the bundle is the one of the lower-case label.
C29_CaseInsensitiveBundle ==
    op = "get_personalized_feedback" =>
        ret = get_personalized_feedback(LowerCased(args.emotion_data),
                                        args.stress_data, args.seed)

\* C30: the label tables are mutually consistent: each of the seven facial
\* labels the detector can emit is a key of map_facial_to_text_emotion's table,
\* maps to a distinct text emotion, and that text emotion is a key of the
\* recommender's emotion response table, so a known facial label never reaches
\* the 'neutral' fallback unless it is Neutral.
C30_LabelTablesConsistent ==
    /\ Len(emotion_labels) = 7
    /\ Range(emotion_labels) \subseteq DOMAIN mapping
    /\ \A a, b \in Range(emotion_labels) : a # b => mapping[a] # mapping[b]
    /\ (op = "map_facial_to_text_emotion"
            /\ args.facial_emotion \in Range(emotion_labels)) =>
           /\ ret = mapping[args.facial_emotion]
           /\ ret \in DOMAIN emotion_responses
           /\ emotion_data_of(ret) = emotion_responses[ret]
           /\ args.facial_emotion # "Neutral" =>
                  /\ ret # "neutral"
                  /\ emotion_data_of(ret) # emotion_responses["neutral"]

C30_Witness ==
    /\ op = "map_facial_to_text_emotion"
    /\ args.facial_emotion = "Disgust"
    /\ ret = "disgust"
    /\ emotion_data_of(ret) = emotion_responses["disgust"]

====
